---------------------------- MODULE Spec2Model ----------------------------
(***************************************************************************)
(* A model of the corruption-evidence analysis engine of                   *)
(* tools/analyze_evidence.py (class EvidenceAnalyzer and main).            *)
(*                                                                         *)
(* A snapshot is a JSON value as json.load returns it.  JSON values are    *)
(* tagged records; a Python str is the sequence of its characters, so that *)
(* `==` is case sensitive and `in` is a real substring search; a dict is   *)
(* the sequence of its <<key, value>> pairs in insertion order, so that a  *)
(* missing key differs from a key holding None and .items() has an order.  *)
(***************************************************************************)
EXTENDS Integers, Sequences, FiniteSets, TLC

(***************************************************************************)
(* Python values                                                           *)
(***************************************************************************)
None == [type |-> "null"]
Bool(b) == [type |-> "bool", b |-> b]
Str(s) == [type |-> "str", s |-> s]
List(l) == [type |-> "list", l |-> l]
Dict(d) == [type |-> "dict", d |-> d]

\* Builder only: a key given this value is left out of the dict.
Missing == [type |-> "missing"]
MkDict(pairs) == Dict(SelectSeq(pairs, LAMBDA p : p[2] # Missing))

EMPTY_STR == <<>>
EPOCH_DATE == <<"1", "9", "7", "0", "-", "0", "1", "-", "0", "1">>
ERROR == <<"E", "r", "r", "o", "r">>
error_lc == <<"e", "r", "r", "o", "r">>
IN_CIRCLE == <<"I", "n", " ", "C", "i", "r", "c", "l", "e">>
VIEW_UNKNOWN == <<"u", "n", "k", "n", "o", "w", "n">>
VIEW_Unknown_uc == <<"U", "n", "k", "n", "o", "w", "n">>
VIEW_ENABLED == <<"e", "n", "a", "b", "l", "e", "d">>
TS_EPOCH_T == <<"1", "9", "7", "0", "-", "0", "1", "-", "0", "1", "T", "0", "0", ":", "1", "1", ":", "1", "9", "Z">>
TS_EPOCH_SP == <<"1", "9", "7", "0", "-", "0", "1", "-", "0", "1", " ", "0", "0", ":", "0", "0", ":", "0", "0", " ", "+", "0", "0", "0", "0">>
TS_VALID == <<"2", "0", "2", "4", "-", "0", "1", "-", "1", "5", "T", "1", "0", ":", "3", "0", ":", "0", "0", "Z">>
TS_CDAT == <<"c", "d", "a", "t", "=", "1", "9", "7", "0", "-", "0", "1", "-", "0", "1", " ", "0", "0", ":", "1", "1", ":", "1", "9", " ", "+", "0", "0", "0", "0">>
TS_NEAR == <<"1", "9", "7", "0", "-", "0", "1", "-", "0", "2", "T", "0", "0", ":", "0", "0", ":", "0", "0", "Z">>
TS_BACKUP == <<"2", "0", "2", "5", "-", "1", "1", "-", "2", "7", "T", "1", "2", ":", "5", "9", ":", "0", "9", "Z">>
AUTOUNLOCK == <<"A", "u", "t", "o", "U", "n", "l", "o", "c", "k">>
ACCOUNT == <<"u", "s", "e", "r">>

(***************************************************************************)
(* Python operations on values                                             *)
(***************************************************************************)
\* The attribute lookups x.get and x.items succeed on a dict only
\* (AttributeError on None, str, list, bool).
HasGet(x) == x.type = "dict"
HasItems(x) == x.type = "dict"

HasKey(x, k) == \E i \in 1..Len(x.d) : x.d[i][1] = k
ValueAt(x, k) == x.d[CHOOSE i \in 1..Len(x.d) : x.d[i][1] = k][2]

\* dict.get(k, default); dict.get(k) is get(x, k, None).
get(x, k, default) == IF HasKey(x, k) THEN ValueAt(x, k) ELSE default

\* bool(x)
Truthy(x) ==
    CASE x.type = "null" -> FALSE
      [] x.type = "bool" -> x.b
      [] x.type = "str" -> x.s # <<>>
      [] x.type = "list" -> x.l # <<>>
      [] x.type = "dict" -> x.d # <<>>

\* `for item in x` is defined on str, list and dict (TypeError otherwise).
Iterable(x) == x.type \in {"str", "list", "dict"}
\* The sequence of values the loop binds item to.
Iterate(x) ==
    CASE x.type = "list" -> x.l
      [] x.type = "dict" -> [i \in 1..Len(x.d) |-> Str(<<x.d[i][1]>>)]
      [] x.type = "str" -> [i \in 1..Len(x.s) |-> Str(<<x.s[i]>>)]

\* `sub in x` for a str sub is defined on str, list and dict
\* (TypeError: argument of type ... is not iterable, otherwise).
HasContains(x) == x.type \in {"str", "list", "dict"}
\* A variant that looks for sub at the start of s only (str.startswith).
StrStartsWith(sub, s) ==
    Len(sub) <= Len(s) /\ \A j \in 1..Len(sub) : s[j] = sub[j]
\* str.__contains__: sub occurs in s at some offset.
StrContains(sub, s) ==
    \E off \in 0..(Len(s) - Len(sub)) :
        \A j \in 1..Len(sub) : s[off + j] = sub[j]
Contains(sub, x) ==
    CASE x.type = "str" -> StrContains(sub, x.s)
      [] x.type = "list" -> \E i \in 1..Len(x.l) : x.l[i] = Str(sub)
      [] x.type = "dict" -> FALSE

(***************************************************************************)
(* The local computations of the three rules (class EvidenceAnalyzer).     *)
(* Each yields either [raised |-> TRUE, exc, line] or the values the       *)
(* method goes on with.                                                    *)
(***************************************************************************)
Raised(exc, line) == [raised |-> TRUE, exc |-> exc, line |-> line]

CIRCLE_WEIGHT == 3
EPOCH_ITEM_WEIGHT == 2
BACKUP_WEIGHT == 2
HIGH_VIEW_COUNT == 5
SEVERE_SCORE == 10
MODERATE_SCORE == 5

NewResult(name) == [name |-> name, issues |-> <<>>, severity |-> "none"]
NoResult == [name |-> "", issues |-> <<>>, severity |-> ""]

\* A variant that looks the section up without a default.
StatusOf_nodefault(d) == get(d, "status_keychain", None)
\* status = data.get("status_keychain", {})
StatusOf(d) == get(d, "status_keychain", Dict(<<>>))
\* circle_status = status.get("circle_status")
CircleStatusOf(status) == get(status, "circle_status", None)
\* A variant that compares without regard to case.
CircleIsError_anycase(circle_status) == circle_status \in {Str(ERROR), Str(error_lc)}
\* if circle_status == "Error"
CircleIsError(circle_status) == circle_status = Str(ERROR)

CircleIssue ==
    [type |-> "circle_status_error",
     description |-> "circle_status is 'Error' - indicates keychain sync failure",
     severity |-> "high",
     evidence |-> "CloudCompromise.md Finding 1, line 115"]

\* view_status = status.get("view_status", {})
ViewStatusOf(status) == get(status, "view_status", Dict(<<>>))
\* A variant that lists the views last to first.
UnknownViews_reversed(view_status) ==
    LET hit == SelectSeq(view_status.d, LAMBDA p : p[2] = Str(VIEW_UNKNOWN))
    IN  [i \in 1..Len(hit) |-> hit[Len(hit) + 1 - i][1]]
\* [view for view, state in view_status.items() if state == "unknown"]
UnknownViews(view_status) ==
    LET hit == SelectSeq(view_status.d, LAMBDA p : p[2] = Str(VIEW_UNKNOWN))
    IN  [i \in 1..Len(hit) |-> hit[i][1]]
\* A variant that is "high" from five views on.
ViewSeverity_inclusive(n) == IF n >= HIGH_VIEW_COUNT THEN "high" ELSE "medium"
\* "high" if len(unknown_views) > 5 else "medium"
ViewSeverity(n) == IF n > HIGH_VIEW_COUNT THEN "high" ELSE "medium"
\* A variant that takes the views off the score.
ViewWeight_deduct(unknown_views) == 0 - Len(unknown_views)
\* self.corruption_score += len(unknown_views): the amount added
ViewWeight(unknown_views) == Len(unknown_views)

ViewIssue(unknown_views) ==
    [type |-> "unknown_pcs_views",
     description |-> <<Len(unknown_views), " PCS views showing 'unknown' status">>,
     affected_views |-> unknown_views,
     severity |-> ViewSeverity(Len(unknown_views)),
     evidence |-> "CloudCompromise.md Finding 1, lines 117-127"]

\* Lines 30-46 of analyze_keychain_status, up to the first use of
\* self.corruption_score.
KeychainCircleStep(d) ==
    IF ~HasGet(d) THEN Raised("AttributeError", 36)
    ELSE IF ~HasGet(StatusOf(d)) THEN Raised("AttributeError", 37)
    ELSE [raised |-> FALSE,
          fired |-> CircleIsError(CircleStatusOf(StatusOf(d)))]

\* Lines 51-61 of analyze_keychain_status.
KeychainViewStep(d) ==
    LET view_status == ViewStatusOf(StatusOf(d))
    IN  IF ~HasItems(view_status) THEN Raised("AttributeError", 52)
        ELSE [raised |-> FALSE,
              fired |-> UnknownViews(view_status) # <<>>,
              unknown_views |-> UnknownViews(view_status)]

\* item.get("creation_date", ""), item.get("modification_date", "")
CreatedOf(item) == get(item, "creation_date", Str(EMPTY_STR))
ModifiedOf(item) == get(item, "modification_date", Str(EMPTY_STR))

\* One pass of the loop body, lines 77-80: AttributeError when item has no
\* .get, TypeError when `in` meets a value that is no container; `or` does
\* not evaluate its right operand when the left one is true.
ItemRaises(item) ==
    \/ ~HasGet(item)
    \/ /\ HasGet(item)
       /\ \/ ~HasContains(CreatedOf(item))
          \/ /\ ~Contains(EPOCH_DATE, CreatedOf(item))
             /\ ~HasContains(ModifiedOf(item))
ItemExc(item) ==
    IF ~HasGet(item) THEN Raised("AttributeError", 77) ELSE Raised("TypeError", 80)
\* if "1970-01-01" in created or "1970-01-01" in modified
IsEpochItem(item) ==
    \/ Contains(EPOCH_DATE, CreatedOf(item))
    \/ Contains(EPOCH_DATE, ModifiedOf(item))
EpochEntry(item) ==
    [service |-> get(item, "service", None),
     account |-> get(item, "account", None),
     creation_date |-> CreatedOf(item),
     modification_date |-> ModifiedOf(item)]
\* A variant that adds one point per matched item.
EpochWeight_unscaled(epoch_items) == Len(epoch_items)
\* self.corruption_score += len(epoch_items) * 2: the amount added
EpochWeight(epoch_items) == Len(epoch_items) * EPOCH_ITEM_WEIGHT

EpochIssue(epoch_items) ==
    [type |-> "epoch_timestamps",
     description |-> <<"Found ", Len(epoch_items), " keychain items with epoch timestamps">>,
     items |-> epoch_items,
     severity |-> "high",
     evidence |-> "CloudCompromise.md Finding 2, line 145"]

\* Lines 69-95 of analyze_timestamps.
TimestampStep(d) ==
    IF ~HasGet(d) THEN Raised("AttributeError", 76)
    ELSE LET coll == get(d, "keychain_items", List(<<>>))
         IN  IF ~Iterable(coll) THEN Raised("TypeError", 76)
             ELSE LET items == Iterate(coll)
                      bad == {i \in 1..Len(items) : ItemRaises(items[i])}
                      hit == SelectSeq(items, IsEpochItem)
                      epoch_items == [i \in 1..Len(hit) |-> EpochEntry(hit[i])]
                  IN  IF bad # {}
                      THEN ItemExc(items[CHOOSE i \in bad : \A j \in bad : i <= j])
                      ELSE [raised |-> FALSE,
                            fired |-> epoch_items # <<>>,
                            epoch_items |-> epoch_items]

BackupIssue(last_backup, validated) ==
    [type |-> "active_backup_without_validation",
     description |-> "iCloud backup is active but no validation performed",
     last_backup |-> last_backup,
     validation_performed |-> validated,
     severity |-> "high",
     evidence |-> "CloudCompromise.md Finding 3, lines 159-167"]

\* A variant that asks only whether last_backup is there (is not None).
BackupActive_present(sync_active, last_backup) ==
    Truthy(sync_active) /\ last_backup # None
\* if sync_active and last_backup
BackupActive(sync_active, last_backup) == Truthy(sync_active) /\ Truthy(last_backup)

\* Lines 103-124 of analyze_backup_metadata.
BackupStep(d) ==
    IF ~HasGet(d) THEN Raised("AttributeError", 109)
    ELSE LET metadata == get(d, "backup_metadata", Dict(<<>>))
             integrity == get(d, "integrity_checks", Dict(<<>>))
         IN  IF ~HasGet(metadata) THEN Raised("AttributeError", 113)
             ELSE LET sync_active == get(metadata, "SyncZoneFetched", Bool(FALSE))
                      last_backup == get(metadata, "NilBackupDateFetchDate", None)
                  IN  IF ~BackupActive(sync_active, last_backup)
                      THEN [raised |-> FALSE, fired |-> FALSE]
                      ELSE IF ~HasGet(integrity) THEN Raised("AttributeError", 121)
                      ELSE [raised |-> FALSE, fired |-> TRUE,
                            issue |-> BackupIssue(last_backup,
                                        get(integrity, "keychain_validated", Bool(FALSE)))]

\* A variant whose tiers begin one point late.
_assess_exclusive(score) ==
    IF score > SEVERE_SCORE THEN "SEVERE - Multiple corruption indicators present"
    ELSE IF score > MODERATE_SCORE THEN "MODERATE - Significant corruption detected"
    ELSE IF score > 0 THEN "MILD - Some issues detected"
    ELSE "CLEAN - No corruption indicators found"
\* _assess_corruption_level, as a function of self.corruption_score
_assess_corruption_level(score) ==
    IF score >= SEVERE_SCORE THEN "SEVERE - Multiple corruption indicators present"
    ELSE IF score >= MODERATE_SCORE THEN "MODERATE - Significant corruption detected"
    ELSE IF score > 0 THEN "MILD - Some issues detected"
    ELSE "CLEAN - No corruption indicators found"

STANDARD_RECOMMENDATIONS ==
    <<"DO NOT restore from this backup to new devices",
      "Collect sysdiagnose for documentation",
      "Contact Apple Support with case reference",
      "Consider creating new clean backup after remediation">>
URGENT == "URGENT: Severe corruption detected - avoid using this backup"

\* A variant that gives the standard entries for every score.
_generate_always(score) ==
    IF score >= SEVERE_SCORE THEN <<URGENT>> \o STANDARD_RECOMMENDATIONS
    ELSE STANDARD_RECOMMENDATIONS
\* A variant that appends the urgency marker instead of inserting it first.
_generate_urgent_last(score) ==
    LET recommendations == IF score > 0 THEN STANDARD_RECOMMENDATIONS ELSE <<>>
    IN  IF score >= SEVERE_SCORE THEN recommendations \o <<URGENT>>
        ELSE recommendations
\* _generate_recommendations, as a function of self.corruption_score
_generate_recommendations(score) ==
    LET recommendations == IF score > 0 THEN STANDARD_RECOMMENDATIONS ELSE <<>>
    IN  IF score >= SEVERE_SCORE THEN <<URGENT>> \o recommendations
        ELSE recommendations

(***************************************************************************)
(* State                                                                   *)
(***************************************************************************)
Threads == {1, 2}
Instances == {1, 2}
MaxLists == 5
\* The list objects; 0 names none.
ListIds == 1..MaxLists
\* datetime.utcnow() at line 145
Times == {1, 2}

VARIABLES
    corruption_score,   \* [Instances -> Nat]     self.corruption_score
    findings,           \* [Instances -> ListIds] self.findings: the list object it names
    heap,               \* [ListIds -> Seq]       the contents of the list objects
    fresh,              \* [Instances -> BOOLEAN] constructed and not yet used
    pc,                 \* [Threads -> STRING]    where each thread is in analyze_all
    data,               \* [Threads -> value]     the argument of the call
    self,               \* [Threads -> Instances] the receiver of the call
    flist,              \* [Threads -> id]        the list whose .append is being called
    result,             \* [Threads -> record]    the rule's local `result`
    acc,                \* [Threads -> Nat]       the value loaded by a `+=`
    loc,                \* [Threads -> record]    the operands of the report literal
    report,             \* [Threads -> record]    the value analyze_all returned
    outcome,            \* [Threads -> record]    returned or raised
    solo,               \* [Threads -> BOOLEAN]   the call began on a fresh instance
                        \*                        that no other thread used meanwhile
    baseline,           \* the outcome of a call that ran alone on a fresh instance
    backups,            \* [device -> record]    MockiCloudBackupSystem.backups
    validation_performed,  \* BOOLEAN            MockiCloudBackupSystem.validation_performed
    warnings_shown,     \* BOOLEAN               MockiCloudBackupSystem.warnings_shown
    ret,                \* what the last call on the backup system returned or raised
    subject,            \* the keychain data a test holds
    indicator,          \* what has_corruption_indicators(subject) returned or raised
    history             \* [device -> record]    what the callers passed to create_backup

vars == <<corruption_score, findings, heap, fresh, pc, data, self, flist,
          result, acc, loc, report, outcome, solo, baseline,
          backups, validation_performed, warnings_shown, ret, subject, indicator,
          history>>

NoData == None
NoLoc == [total_issues |-> 0, high_severity |-> 0, timestamp |-> 0,
          total_findings |-> 0, corruption_score |-> 0, assessment |-> "",
          findings |-> 0]
NoReport == [kind |-> "none"]
NoOutcome == [kind |-> "none"]
Returned == [kind |-> "returned"]
NoBaseline == [kind |-> "none"]

\* The device ids the tests use.
Devices == {"device-A", "device-B"}
\* self.backups = {}   (conftest.py line 51)
NoBackups == [d \in {} |-> NoData]
NoCall == [op |-> "none"]
NoSubject == [type |-> "none"]
NoHistory == [passed |-> NoData, seed |-> NoData, cycles |-> 0]

\* The list objects something still refers to.
Referenced(f, fl, lc, rp) ==
    {f[i] : i \in Instances} \cup {fl[t] : t \in Threads}
    \cup {lc[t].findings : t \in Threads}
    \cup {rp[t].findings : t \in {u \in Threads : rp[u] # NoReport}}
\* A list object nothing refers to is garbage: its cell is empty.
Collect(h, f, fl, lc, rp) ==
    [id \in ListIds |-> IF id \in Referenced(f, fl, lc, rp) THEN h[id] ELSE <<>>]
\* The cell a new list object takes.
NewList(used) == CHOOSE id \in ListIds : id \notin used /\ \A j \in ListIds \ used : id <= j

Active(t) == pc[t] # "idle"
Using(i) == {t \in Threads : Active(t) /\ self[t] = i}

Init ==
    /\ corruption_score = [i \in Instances |-> 0]
    /\ findings = [i \in Instances |-> i]
    /\ heap = [id \in ListIds |-> <<>>]
    /\ fresh = [i \in Instances |-> TRUE]
    /\ pc = [t \in Threads |-> "idle"]
    /\ data = [t \in Threads |-> NoData]
    /\ self = [t \in Threads |-> t]
    /\ flist = [t \in Threads |-> 0]
    /\ result = [t \in Threads |-> NoResult]
    /\ acc = [t \in Threads |-> 0]
    /\ loc = [t \in Threads |-> NoLoc]
    /\ report = [t \in Threads |-> NoReport]
    /\ outcome = [t \in Threads |-> NoOutcome]
    /\ solo = [t \in Threads |-> FALSE]
    /\ baseline = NoBaseline
    /\ backups = NoBackups
    /\ validation_performed = FALSE
    /\ warnings_shown = FALSE
    /\ ret = NoCall
    /\ subject = NoSubject
    /\ indicator = NoCall
    /\ history = [d \in Devices |-> NoHistory]

instVars == <<corruption_score, findings, heap, fresh>>
callVars == <<data, self, solo>>
tempVars == <<flist, result, acc, loc>>
retVars == <<report, outcome>>
\* The MockiCloudBackupSystem of the tests and what its callers hold.
mockVars == <<backups, validation_performed, warnings_shown, ret, subject, indicator,
              history>>
\* The EvidenceAnalyzer and what its callers hold.
analyzerVars == <<instVars, pc, callVars, tempVars, retVars, baseline>>

(***************************************************************************)
(* EvidenceAnalyzer.__init__ (lines 24-26): a new analyzer takes slot i.   *)
(***************************************************************************)
New(i) ==
    /\ Using(i) = {}
    /\ ~fresh[i]
    /\ LET id == NewList(Referenced(findings, flist, loc, report))
           f == [findings EXCEPT ![i] = id]
       IN  /\ findings' = f
           /\ heap' = Collect([heap EXCEPT ![id] = <<>>], f, flist, loc, report)
    /\ corruption_score' = [corruption_score EXCEPT ![i] = 0]
    /\ fresh' = [fresh EXCEPT ![i] = TRUE]
    /\ UNCHANGED <<mockVars, pc, callVars, tempVars, retVars, baseline>>

(***************************************************************************)
(* Thread t calls analyze_all(d) on instance i.  The caller's previous     *)
(* report is dropped.                                                      *)
(***************************************************************************)
Call(t, i, d) ==
    /\ pc[t] = "idle"
    /\ pc' = [pc EXCEPT ![t] = "a132"]
    /\ data' = [data EXCEPT ![t] = d]
    /\ self' = [self EXCEPT ![t] = i]
    /\ solo' = [u \in Threads |->
                 IF u = t THEN fresh[i] /\ Using(i) = {}
                 ELSE IF u \in Using(i) THEN FALSE ELSE solo[u]]
    /\ fresh' = [fresh EXCEPT ![i] = FALSE]
    /\ report' = [report EXCEPT ![t] = NoReport]
    /\ outcome' = [outcome EXCEPT ![t] = NoOutcome]
    /\ heap' = Collect(heap, findings, flist, loc, report')
    /\ UNCHANGED <<mockVars, corruption_score, findings, tempVars, baseline>>

\* An exception leaves analyze_all: the frame is gone, the instance stays
\* as it is.
Unwind(t, r) ==
    /\ pc' = [pc EXCEPT ![t] = "idle"]
    /\ outcome' = [outcome EXCEPT ![t] = [kind |-> "raised", exc |-> r.exc, line |-> r.line]]
    /\ flist' = [flist EXCEPT ![t] = 0]
    /\ result' = [result EXCEPT ![t] = NoResult]
    /\ acc' = [acc EXCEPT ![t] = 0]
    /\ loc' = [loc EXCEPT ![t] = NoLoc]

\* The thread goes on at `label` inside a rule.
Frame(t, label, fl, res) ==
    /\ pc' = [pc EXCEPT ![t] = label]
    /\ flist' = [flist EXCEPT ![t] = fl]
    /\ result' = [result EXCEPT ![t] = res]
    /\ acc' = [acc EXCEPT ![t] = 0]
    /\ UNCHANGED <<loc, outcome>>

AddIssue(res, issue) == [res EXCEPT !.issues = Append(@, issue)]
SetHigh(res) == [res EXCEPT !.severity = "high"]

\* A variant that empties the list in place (self.findings.clear()).
a132_clear(t) ==
    /\ pc[t] = "a132"
    /\ heap' = [heap EXCEPT ![findings[self[t]]] = <<>>]
    /\ pc' = [pc EXCEPT ![t] = "a133"]
    /\ UNCHANGED <<mockVars, corruption_score, findings, fresh, callVars, tempVars, retVars, baseline>>
\* A variant that lets self.findings go on naming the list it names.
a132_keep(t) ==
    /\ pc[t] = "a132"
    /\ pc' = [pc EXCEPT ![t] = "a133"]
    /\ UNCHANGED <<mockVars, instVars, callVars, tempVars, retVars, baseline>>
\* self.findings = []   (line 132)
a132(t) ==
    /\ pc[t] = "a132"
    /\ LET id == NewList(Referenced(findings, flist, loc, report))
           f == [findings EXCEPT ![self[t]] = id]
       IN  /\ findings' = f
           /\ heap' = Collect([heap EXCEPT ![id] = <<>>], f, flist, loc, report)
    /\ pc' = [pc EXCEPT ![t] = "a133"]
    /\ UNCHANGED <<mockVars, corruption_score, fresh, callVars, tempVars, retVars, baseline>>

\* A variant that leaves the score of the previous call in place.
a133_keep(t) ==
    /\ pc[t] = "a133"
    /\ pc' = [pc EXCEPT ![t] = "a136"]
    /\ UNCHANGED <<mockVars, corruption_score, findings, heap, fresh, callVars, tempVars,
                   retVars, baseline>>
\* self.corruption_score = 0   (line 133)
a133(t) ==
    /\ pc[t] = "a133"
    /\ corruption_score' = [corruption_score EXCEPT ![self[t]] = 0]
    /\ pc' = [pc EXCEPT ![t] = "a136"]
    /\ UNCHANGED <<mockVars, findings, heap, fresh, callVars, tempVars, retVars, baseline>>

(***************************************************************************)
(* self.findings.append(self.analyze_keychain_status(data))   (line 136)   *)
(* The bound method self.findings.append is evaluated first, then the rule *)
(* runs.  An action is one access to the instance plus the local work up   *)
(* to the next one; `x += e` is a load (..r) and a store (..w).            *)
(***************************************************************************)
\* Lines 51-61, then on to line 62 or to the return.
ViewPart(t, fl, res) ==
    LET v == KeychainViewStep(data[t])
    IN  IF v.raised THEN Unwind(t, v)
        ELSE IF v.fired THEN Frame(t, "k62r", fl, AddIssue(res, ViewIssue(v.unknown_views)))
        ELSE Frame(t, "k65", fl, res)

\* analyze_keychain_status from its entry to line 46, then on; fl is the
\* list that waits for the result (0: none, the method was called by itself).
KeychainEnter(t, fl) ==
    /\ LET res == NewResult("Keychain Status Analysis")
           c == KeychainCircleStep(data[t])
       IN  IF c.raised THEN Unwind(t, c)
           ELSE IF c.fired THEN Frame(t, "k47r", fl, AddIssue(res, CircleIssue))
           ELSE ViewPart(t, fl, res)
    /\ heap' = Collect(heap, findings, flist', loc', report)
    /\ UNCHANGED <<mockVars, corruption_score, findings, fresh, callVars, report, baseline>>

a136(t) == pc[t] = "a136" /\ KeychainEnter(t, findings[self[t]])

\* self.corruption_score += 3   (line 47): load
k47r(t) ==
    /\ pc[t] = "k47r"
    /\ acc' = [acc EXCEPT ![t] = corruption_score[self[t]]]
    /\ pc' = [pc EXCEPT ![t] = "k47w"]
    /\ UNCHANGED <<mockVars, instVars, callVars, flist, result, loc, retVars, baseline>>

\* line 47: store; line 48; then lines 51-61
k47w(t) ==
    /\ pc[t] = "k47w"
    /\ corruption_score' = [corruption_score EXCEPT ![self[t]] = acc[t] + CIRCLE_WEIGHT]
    /\ ViewPart(t, flist[t], SetHigh(result[t]))
    /\ heap' = Collect(heap, findings, flist', loc', report)
    /\ UNCHANGED <<mockVars, findings, fresh, callVars, report, baseline>>

\* self.corruption_score += len(unknown_views)   (line 62): load
k62r(t) ==
    /\ pc[t] = "k62r"
    /\ acc' = [acc EXCEPT ![t] = corruption_score[self[t]]]
    /\ pc' = [pc EXCEPT ![t] = "k62w"]
    /\ UNCHANGED <<mockVars, instVars, callVars, flist, result, loc, retVars, baseline>>

\* line 62: store; line 63
k62w(t) ==
    /\ pc[t] = "k62w"
    /\ LET issues == result[t].issues
           unknown_views == issues[Len(issues)].affected_views
       IN  corruption_score' =
               [corruption_score EXCEPT ![self[t]] = acc[t] + ViewWeight(unknown_views)]
    /\ Frame(t, "k65", flist[t], SetHigh(result[t]))
    /\ UNCHANGED <<mockVars, findings, heap, fresh, callVars, report, baseline>>

\* A rule returns `result` and the list loaded at the call site appends it.
AppendResult(t, next) ==
    /\ Frame(t, next, 0, NoResult)
    /\ heap' = Collect([heap EXCEPT ![flist[t]] = Append(@, result[t])],
                       findings, flist', loc, report)
    /\ UNCHANGED <<mockVars, corruption_score, findings, fresh, callVars, report, baseline>>

\* return result   (line 65)
k65(t) == pc[t] = "k65" /\ AppendResult(t, "a137")

(***************************************************************************)
(* self.findings.append(self.analyze_timestamps(data))   (line 137)        *)
(***************************************************************************)
\* analyze_timestamps from its entry to line 95, then on.
TimestampEnter(t, fl) ==
    /\ LET res == NewResult("Timestamp Validation")
           e == TimestampStep(data[t])
       IN  IF e.raised THEN Unwind(t, e)
           ELSE IF e.fired THEN Frame(t, "t96r", fl, AddIssue(res, EpochIssue(e.epoch_items)))
           ELSE Frame(t, "t99", fl, res)
    /\ heap' = Collect(heap, findings, flist', loc', report)
    /\ UNCHANGED <<mockVars, corruption_score, findings, fresh, callVars, report, baseline>>

\* A variant that takes the items out of the snapshot
\* (data.pop("keychain_items", [])).
a137_pop(t) ==
    /\ pc[t] = "a137"
    /\ LET fl == findings[self[t]]
           res == NewResult("Timestamp Validation")
           e == TimestampStep(data[t])
       IN  IF e.raised THEN Unwind(t, e)
           ELSE IF e.fired THEN Frame(t, "t96r", fl, AddIssue(res, EpochIssue(e.epoch_items)))
           ELSE Frame(t, "t99", fl, res)
    /\ heap' = Collect(heap, findings, flist', loc', report)
    /\ data' = [data EXCEPT ![t] =
                  IF data[t].type = "dict"
                  THEN Dict(SelectSeq(data[t].d, LAMBDA p : p[1] # "keychain_items"))
                  ELSE data[t]]
    /\ UNCHANGED <<mockVars, corruption_score, findings, fresh, self, solo, report, baseline>>
a137(t) == pc[t] = "a137" /\ TimestampEnter(t, findings[self[t]])

\* self.corruption_score += len(epoch_items) * 2   (line 96): load
t96r(t) ==
    /\ pc[t] = "t96r"
    /\ acc' = [acc EXCEPT ![t] = corruption_score[self[t]]]
    /\ pc' = [pc EXCEPT ![t] = "t96w"]
    /\ UNCHANGED <<mockVars, instVars, callVars, flist, result, loc, retVars, baseline>>

\* line 96: store; line 97
t96w(t) ==
    /\ pc[t] = "t96w"
    /\ LET issues == result[t].issues
           epoch_items == issues[Len(issues)].items
       IN  corruption_score' =
               [corruption_score EXCEPT ![self[t]] = acc[t] + EpochWeight(epoch_items)]
    /\ Frame(t, "t99", flist[t], SetHigh(result[t]))
    /\ UNCHANGED <<mockVars, findings, heap, fresh, callVars, report, baseline>>

\* return result   (line 99)
t99(t) == pc[t] = "t99" /\ AppendResult(t, "a138")

(***************************************************************************)
(* self.findings.append(self.analyze_backup_metadata(data))   (line 138)   *)
(***************************************************************************)
\* analyze_backup_metadata from its entry to line 124, then on.
BackupEnter(t, fl) ==
    /\ LET res == NewResult("Backup Activity Analysis")
           b == BackupStep(data[t])
       IN  IF b.raised THEN Unwind(t, b)
           ELSE IF b.fired THEN Frame(t, "b125r", fl, AddIssue(res, b.issue))
           ELSE Frame(t, "b128", fl, res)
    /\ heap' = Collect(heap, findings, flist', loc', report)
    /\ UNCHANGED <<mockVars, corruption_score, findings, fresh, callVars, report, baseline>>

a138(t) == pc[t] = "a138" /\ BackupEnter(t, findings[self[t]])

\* self.corruption_score += 2   (line 125): load
b125r(t) ==
    /\ pc[t] = "b125r"
    /\ acc' = [acc EXCEPT ![t] = corruption_score[self[t]]]
    /\ pc' = [pc EXCEPT ![t] = "b125w"]
    /\ UNCHANGED <<mockVars, instVars, callVars, flist, result, loc, retVars, baseline>>

\* line 125: store; line 126
b125w(t) ==
    /\ pc[t] = "b125w"
    /\ corruption_score' = [corruption_score EXCEPT ![self[t]] = acc[t] + BACKUP_WEIGHT]
    /\ Frame(t, "b128", flist[t], SetHigh(result[t]))
    /\ UNCHANGED <<mockVars, findings, heap, fresh, callVars, report, baseline>>

\* return result   (line 128)
b128(t) == pc[t] = "b128" /\ AppendResult(t, "a141")

(***************************************************************************)
(* The summary and the report (lines 141-157)                              *)
(***************************************************************************)
\* A variant that counts the issues of the first finding only.
SumLen_first(fs) == IF fs = <<>> THEN 0 ELSE Len(Head(fs).issues)
RECURSIVE SumLen(_)
\* sum(len(f["issues"]) for f in fs)
SumLen(fs) == IF fs = <<>> THEN 0 ELSE Len(Head(fs).issues) + SumLen(Tail(fs))
\* sum(1 for f in fs if f["severity"] == "high")
CountHigh(fs) == Len(SelectSeq(fs, LAMBDA f : f.severity = "high"))

Summary(t, label, l) ==
    /\ pc' = [pc EXCEPT ![t] = label]
    /\ loc' = [loc EXCEPT ![t] = l]
    /\ heap' = Collect(heap, findings, flist, loc', report)
    /\ UNCHANGED <<mockVars, corruption_score, findings, fresh, callVars, flist, result, acc,
                   retVars, baseline>>

\* total_issues = sum(len(f["issues"]) for f in self.findings)   (line 141)
a141(t) ==
    /\ pc[t] = "a141"
    /\ Summary(t, "a142", [loc[t] EXCEPT !.total_issues = SumLen(heap[findings[self[t]]])])

\* high_severity = sum(1 for f in self.findings if ...)   (line 142)
a142(t) ==
    /\ pc[t] = "a142"
    /\ Summary(t, "a147", [loc[t] EXCEPT !.high_severity = CountHigh(heap[findings[self[t]]])])

\* "timestamp": datetime.utcnow().isoformat(), "total_findings": len(self.findings)
\* (lines 145-147)
a147(t) ==
    /\ pc[t] = "a147"
    /\ \E now \in Times :
          Summary(t, "a150", [loc[t] EXCEPT !.timestamp = now,
                                            !.total_findings = Len(heap[findings[self[t]]])])

\* "corruption_score": self.corruption_score   (line 150)
a150(t) ==
    /\ pc[t] = "a150"
    /\ Summary(t, "a151", [loc[t] EXCEPT !.corruption_score = corruption_score[self[t]]])

\* "assessment": self._assess_corruption_level()   (line 151)
a151(t) ==
    /\ pc[t] = "a151"
    /\ Summary(t, "a153", [loc[t] EXCEPT !.assessment =
                              _assess_corruption_level(corruption_score[self[t]])])

\* "findings": self.findings   (line 153)
a153(t) ==
    /\ pc[t] = "a153"
    /\ Summary(t, "a154", [loc[t] EXCEPT !.findings = findings[self[t]]])

\* The report literal of lines 144-155, its operands evaluated.
MakeReport(l, recommendations) ==
    [timestamp |-> l.timestamp,
     summary |-> [total_findings |-> l.total_findings,
                  total_issues |-> l.total_issues,
                  high_severity_findings |-> l.high_severity,
                  corruption_score |-> l.corruption_score,
                  assessment |-> l.assessment],
     findings |-> l.findings,
     recommendations |-> recommendations]

\* A variant whose recommendations also look at what the first rule found.
a154_bytype(t) ==
    /\ pc[t] = "a154"
    /\ LET fs == heap[loc[t].findings]
           rs == _generate_recommendations(corruption_score[self[t]])
       IN  report' = [report EXCEPT ![t] =
                        MakeReport(loc[t],
                                   IF \E i \in 1..Len(fs) : \E j \in 1..Len(fs[i].issues) :
                                         fs[i].issues[j].type = "circle_status_error"
                                   THEN rs \o <<"Reset the keychain circle">> ELSE rs)]
    /\ outcome' = [outcome EXCEPT ![t] = Returned]
    /\ pc' = [pc EXCEPT ![t] = "idle"]
    /\ loc' = [loc EXCEPT ![t] = NoLoc]
    /\ heap' = Collect(heap, findings, flist, loc', report')
    /\ UNCHANGED <<mockVars, corruption_score, findings, fresh, callVars, flist, result, acc, baseline>>
\* "recommendations": self._generate_recommendations(); return report
\* (lines 154-157)
a154(t) ==
    /\ pc[t] = "a154"
    /\ report' = [report EXCEPT ![t] =
                    MakeReport(loc[t], _generate_recommendations(corruption_score[self[t]]))]
    /\ outcome' = [outcome EXCEPT ![t] = Returned]
    /\ pc' = [pc EXCEPT ![t] = "idle"]
    /\ loc' = [loc EXCEPT ![t] = NoLoc]
    /\ heap' = Collect(heap, findings, flist, loc', report')
    /\ UNCHANGED <<mockVars, corruption_score, findings, fresh, callVars, flist, result, acc, baseline>>

\* Every step of analyze_all after its entry.
Step(t) ==
    \/ a132(t) \/ a133(t)
    \/ a136(t) \/ k47r(t) \/ k47w(t) \/ k62r(t) \/ k62w(t) \/ k65(t)
    \/ a137(t) \/ t96r(t) \/ t96w(t) \/ t99(t)
    \/ a138(t) \/ b125r(t) \/ b125w(t) \/ b128(t)
    \/ a141(t) \/ a142(t) \/ a147(t) \/ a150(t) \/ a151(t) \/ a153(t) \/ a154(t)

(***************************************************************************)
(* A rule method called by itself: result = analyzer.analyze_...(data).    *)
(* No list waits for the result; the caller gets it.                        *)
(***************************************************************************)
RuleEntries == {"r28", "r67", "r101"}

RuleCall(t, i, d, entry) ==
    /\ pc[t] = "idle"
    /\ pc' = [pc EXCEPT ![t] = entry]
    /\ data' = [data EXCEPT ![t] = d]
    /\ self' = [self EXCEPT ![t] = i]
    /\ solo' = [solo EXCEPT ![t] = FALSE]
    /\ fresh' = [fresh EXCEPT ![i] = FALSE]
    /\ outcome' = [outcome EXCEPT ![t] = NoOutcome]
    /\ result' = [result EXCEPT ![t] = NoResult]
    /\ UNCHANGED <<mockVars, corruption_score, findings, heap, flist, acc, loc, report, baseline>>

r28(t) == pc[t] = "r28" /\ KeychainEnter(t, 0)
r67(t) == pc[t] = "r67" /\ TimestampEnter(t, 0)
r101(t) == pc[t] = "r101" /\ BackupEnter(t, 0)

\* return result, to the caller.
ReturnResult(t) ==
    /\ flist[t] = 0
    /\ pc' = [pc EXCEPT ![t] = "idle"]
    /\ outcome' = [outcome EXCEPT ![t] = [kind |-> "result"]]
    /\ acc' = [acc EXCEPT ![t] = 0]
    /\ UNCHANGED <<mockVars, instVars, callVars, flist, result, loc, report, baseline>>

r65(t) == pc[t] = "k65" /\ ReturnResult(t)
r99(t) == pc[t] = "t99" /\ ReturnResult(t)
r128(t) == pc[t] = "b128" /\ ReturnResult(t)

\* Every step of a rule method called by itself.
RuleStep(t) ==
    \/ r28(t) \/ k47r(t) \/ k47w(t) \/ k62r(t) \/ k62w(t) \/ r65(t)
    \/ r67(t) \/ t96r(t) \/ t96w(t) \/ r99(t)
    \/ r101(t) \/ b125r(t) \/ b125w(t) \/ r128(t)

\* What a caller can see of thread t's call: the exception, or the report
\* without its timestamp, its findings read through the list it names.
View(t) ==
    IF outcome[t].kind = "returned"
    THEN [kind |-> "returned",
          summary |-> report[t].summary,
          findings |-> heap[report[t].findings],
          recommendations |-> report[t].recommendations]
    ELSE outcome[t]

\* The caller keeps the outcome of a call that ran alone on a new analyzer.
Record(t) ==
    /\ pc[t] = "idle"
    /\ outcome[t] # NoOutcome
    /\ solo[t]
    /\ baseline # [kind |-> "set", data |-> data[t], view |-> View(t)]
    /\ baseline' = [kind |-> "set", data |-> data[t], view |-> View(t)]
    /\ UNCHANGED <<mockVars, instVars, pc, callVars, tempVars, retVars>>

(***************************************************************************)
(* The snapshots the analyses are run on                                   *)
(***************************************************************************)
MaxViews == 6
MaxItems == 2

\* The eleven PCS views of the diagnostic capture, in the order the
\* capture lists them.
VIEW_NAMES ==
    <<"PCS-MasterKey", "PCS-Backup", "PCS-iCloudDrive", "PCS-CloudKit",
      "PCS-Photos", "PCS-Escrow", "PCS-FDE", "PCS-Notes", "PCS-iMessage",
      "PCS-Maildrop", "PCS-Feldspar">>

Snap(status, items, metadata, integrity) ==
    MkDict(<< <<"status_keychain", status>>, <<"keychain_items", items>>,
              <<"backup_metadata", metadata>>, <<"integrity_checks", integrity>> >>)
Status(circle, views) ==
    MkDict(<< <<"circle_status", circle>>, <<"view_status", views>> >>)
ViewMap(states) == Dict([i \in 1..Len(states) |-> <<VIEW_NAMES[i], states[i]>>])
Item(created, modified) ==
    MkDict(<< <<"service", Str(AUTOUNLOCK)>>, <<"account", Str(ACCOUNT)>>,
              <<"creation_date", created>>, <<"modification_date", modified>> >>)
Metadata(sync, last) ==
    MkDict(<< <<"SyncZoneFetched", sync>>, <<"NilBackupDateFetchDate", last>> >>)
Integrity(validated) == MkDict(<< <<"keychain_validated", validated>> >>)

Unk == Str(VIEW_UNKNOWN)
Ena == Str(VIEW_ENABLED)
SeqsUpTo(S, n) == UNION {[1..k -> S] : k \in 0..n}

\* A few values on each axis, for the combinations of signatures.
CircleCore == {Missing, Str(ERROR), Str(IN_CIRCLE)}
ViewCore ==
    {Missing,
     ViewMap(<<Ena, Ena>>),
     ViewMap(<<Ena, Unk>>),
     ViewMap(<<Unk, Unk, Ena, Unk, Unk, Unk>>),
     ViewMap(<<Unk, Unk, Unk, Unk, Unk, Unk>>),
     ViewMap([i \in 1..Len(VIEW_NAMES) |-> Unk])}
ItemsCore ==
    {Missing,
     List(<<Item(Str(TS_EPOCH_T), Str(TS_VALID))>>),
     List(<<Item(Str(TS_VALID), Str(TS_VALID)), Item(Str(TS_EPOCH_SP), Missing),
            Item(Str(TS_VALID), Str(TS_EPOCH_T))>>)}
BackupCore == {Missing, Metadata(Bool(TRUE), Str(TS_BACKUP))}
ComboSnapshots ==
    {Snap(Status(c, v), it, m, Missing) :
        c \in CircleCore, v \in ViewCore, it \in ItemsCore, m \in BackupCore}

\* What the other sections hold while one section is varied: nothing, or
\* one signature each.
QuietStatus == Missing
NoisyStatus == Status(Str(ERROR), ViewMap(<<Unk, Ena>>))
QuietItems == Missing
NoisyItems == List(<<Item(Str(TS_EPOCH_T), Str(TS_VALID))>>)
QuietBackup == Missing
NoisyBackup == Metadata(Bool(TRUE), Str(TS_BACKUP))

\* status_keychain varied: every type of section, circle_status and view_status.
CircleRich == {Missing, None, Bool(TRUE), Str(ERROR), Str(error_lc), Str(IN_CIRCLE)}
ViewFew ==
    {Missing, None, Str(VIEW_UNKNOWN), List(<<>>), Dict(<<>>),
     ViewMap(<<Unk>>),
     ViewMap(<<Str(VIEW_Unknown_uc), None, Ena, Bool(TRUE)>>)}
StatusRich ==
    {Missing, None, Str(ERROR), List(<<>>), Bool(TRUE)}
    \cup {Status(c, v) : c \in CircleRich, v \in ViewFew}
StatusSlice ==
    {Snap(s, QuietItems, QuietBackup, Missing) : s \in StatusRich}
    \cup {Snap(s, NoisyItems, NoisyBackup, Missing) : s \in StatusRich}

\* view_status varied: every assignment of states to the first k views.
ViewRich == {ViewMap(states) : states \in SeqsUpTo({Unk, Ena}, MaxViews)}
ViewSlice ==
    {Snap(Status(Missing, v), QuietItems, QuietBackup, Missing) : v \in ViewRich}
    \cup {Snap(Status(Str(ERROR), v), NoisyItems, NoisyBackup, Missing) : v \in ViewRich}

\* keychain_items varied: every list of up to MaxItems items.
DateValues ==
    {Missing, None, Bool(TRUE), Str(TS_EPOCH_T), Str(TS_EPOCH_SP), Str(TS_VALID),
     Str(TS_CDAT), Str(TS_NEAR)}
ItemRich ==
    {Item(c, Missing) : c \in DateValues}
    \cup {Item(Missing, m) : m \in DateValues}
    \cup {Item(c, m) : c \in {Str(TS_EPOCH_T), Str(TS_VALID)},
                       m \in {None, Str(TS_EPOCH_T), Str(TS_VALID)}}
    \cup {Str(TS_EPOCH_T)}
ItemsRich ==
    {None, Bool(FALSE), Str(EMPTY_STR), Str(EPOCH_DATE), Dict(<<>>)}
    \cup {List(l) : l \in SeqsUpTo(ItemRich, MaxItems)}
ItemSlice ==
    {Snap(QuietStatus, it, QuietBackup, Missing) : it \in ItemsRich}
    \cup {Snap(NoisyStatus, it, NoisyBackup, Missing) : it \in ItemsRich}

\* backup_metadata and integrity_checks varied.
MetadataRich ==
    {Missing, None, Str(TS_BACKUP)}
    \cup {Metadata(s, l) : s \in {Missing, None, Bool(TRUE), Bool(FALSE)},
                           l \in {Missing, None, Str(EMPTY_STR), Str(TS_BACKUP)}}
IntegrityRich ==
    {Missing, None, Dict(<<>>), Integrity(Bool(FALSE)), Integrity(Bool(TRUE))}
BackupSlice ==
    {Snap(QuietStatus, QuietItems, m, g) : m \in MetadataRich, g \in IntegrityRich}
    \cup {Snap(NoisyStatus, NoisyItems, m, g) : m \in MetadataRich, g \in IntegrityRich}

\* What json.load can return that is no dict at all.
TopLevel == {None, List(<<>>)}

Snapshots ==
    ComboSnapshots \cup StatusSlice \cup ViewSlice \cup ItemSlice \cup BackupSlice
    \cup TopLevel

(***************************************************************************)
(* Spec: main (lines 293-307) runs analyze_all once on a new               *)
(* EvidenceAnalyzer and returns; run after run, each in a new process.     *)
(***************************************************************************)
MainThread == 1
MainInstance == 1

\* analyzer = EvidenceAnalyzer(); report = analyzer.analyze_all(data)
\* (lines 294-295), the analyzer being as __init__ left it.
MainCall(d) == fresh[MainInstance] /\ Call(MainThread, MainInstance, d)

\* The process ends: all its objects are gone, the next run starts from what
\* construction gives.
Exit ==
    /\ corruption_score' = [i \in Instances |-> 0]
    /\ findings' = [i \in Instances |-> i]
    /\ heap' = [id \in ListIds |-> <<>>]
    /\ fresh' = [i \in Instances |-> TRUE]
    /\ data' = [t \in Threads |-> NoData]
    /\ self' = [t \in Threads |-> t]
    /\ report' = [t \in Threads |-> NoReport]
    /\ outcome' = [t \in Threads |-> NoOutcome]
    /\ solo' = [t \in Threads |-> FALSE]
    /\ UNCHANGED <<mockVars, pc, tempVars, baseline>>

\* A variant that reports severe corruption only.
ExitCode_severe(score) == IF score >= SEVERE_SCORE THEN 1 ELSE 0
\* 1 if report["summary"]["corruption_score"] > 0 else 0   (line 307)
ExitCode(score) == IF score > 0 THEN 1 ELSE 0

\* The report in hand, main prints it, saves it if asked to (lines 298-304:
\* nothing of the analyzer or the report changes) and returns its exit
\* code (line 307).
MainReturn ==
    /\ pc[MainThread] = "idle"
    /\ outcome[MainThread] = Returned
    /\ outcome' = [outcome EXCEPT ![MainThread] =
                     [kind |-> "returned",
                      exit |-> ExitCode(report[MainThread].summary.corruption_score)]]
    /\ UNCHANGED <<mockVars, instVars, pc, callVars, tempVars, report, baseline>>

\* main has returned its exit code.
Exited(t) == outcome[t].kind = "returned" /\ outcome[t] # Returned

\* main is left, by its return (line 307) or by the exception.
MainExit ==
    /\ pc[MainThread] = "idle"
    /\ outcome[MainThread].kind = "raised" \/ Exited(MainThread)
    /\ Exit

Next ==
    \/ \E d \in Snapshots : MainCall(d)
    \/ Step(MainThread)
    \/ MainReturn
    \/ MainExit

Spec == Init /\ [][Next]_vars

(***************************************************************************)
(* SpecReuse: one caller, one analyzer that stays in use call after call   *)
(* (and may be replaced by a new one); the caller may keep the outcome of  *)
(* a call on a new analyzer to compare later outcomes with.                *)
(***************************************************************************)
ReuseSnapshots ==
    {Snap(Status(c, v), it, m, Missing) :
        c \in {Missing, Str(ERROR)},
        v \in {Missing, ViewMap(<<Unk, Ena, Unk>>)},
        it \in {Missing, List(<<Item(Str(TS_EPOCH_T), Str(TS_VALID))>>)},
        m \in {Missing, Metadata(Bool(TRUE), Str(TS_BACKUP))}}
    \cup {Snap(Status(Str(ERROR), None), Missing, Missing, Missing),
          Snap(NoisyStatus, List(<<Item(None, Missing)>>), Missing, Missing),
          Snap(NoisyStatus, NoisyItems, None, Missing)}

NextReuse ==
    \/ New(MainInstance)
    \/ \E d \in ReuseSnapshots : Call(MainThread, MainInstance, d)
    \/ Step(MainThread)
    \/ Record(MainThread)

SpecReuse == Init /\ [][NextReuse]_vars

(***************************************************************************)
(* SpecShared: two callers with a snapshot each; in one run of the process *)
(* each calls analyze_all once, at any time, the first caller on the       *)
(* shared analyzer and the second on either, their steps interleaved.  A   *)
(* caller may keep the outcome of a call that ran alone.                   *)
(***************************************************************************)
SharedSnapshots ==
    <<Snap(Status(Str(ERROR), ViewMap(<<Unk>>)), Missing, Missing, Missing),
      Snap(Missing, NoisyItems, NoisyBackup, Missing)>>

SharedCall(t, i) == outcome[t] = NoOutcome /\ Call(t, i, SharedSnapshots[t])

SharedExit ==
    /\ \A t \in Threads : pc[t] = "idle"
    /\ \E t \in Threads : outcome[t] # NoOutcome
    /\ Exit

NextShared ==
    \/ SharedCall(MainThread, MainInstance)
    \/ \E i \in Instances : SharedCall(2, i)
    \/ \E t \in Threads : Step(t)
    \/ \E t \in Threads : Record(t)
    \/ SharedExit

SpecShared == Init /\ [][NextShared]_vars

(***************************************************************************)
(* SpecTurns: two callers and one analyzer; the callers take turns, a call *)
(* beginning only when no call is under way, and each caller keeps the     *)
(* report of its last call.                                                *)
(***************************************************************************)
TurnSnapshots ==
    {Snap(Missing, Missing, Missing, Missing),
     Snap(Status(Str(ERROR), Missing), Missing, Missing, Missing),
     Snap(Status(Missing, ViewMap(<<Unk, Unk, Ena>>)), Missing, Missing, Missing),
     Snap(Status(Missing, ViewMap(<<Unk, Unk, Unk>>)), Missing, Missing, Missing),
     Snap(Status(Str(ERROR), Missing), NoisyItems, Missing, Missing),
     Snap(Status(Str(ERROR), Missing), Missing, NoisyBackup, Missing),
     Snap(Status(Str(ERROR), ViewMap(<<Unk, Unk, Unk>>)), NoisyItems, NoisyBackup, Missing),
     Snap(Status(Str(ERROR), None), Missing, Missing, Missing)}

TurnCall(t, d) ==
    /\ \A u \in Threads : pc[u] = "idle"
    /\ Call(t, MainInstance, d)

NextTurns ==
    \/ \E t \in Threads, d \in TurnSnapshots : TurnCall(t, d)
    \/ \E t \in Threads : Step(t)

SpecTurns == Init /\ [][NextTurns]_vars

(***************************************************************************)
(* SpecRules: one caller that calls the rule methods of a new analyzer by  *)
(* themselves, one call after another, and never analyze_all.              *)
(***************************************************************************)
MaxScore == 8

RuleSnapshots ==
    {Snap(Missing, Missing, Missing, Missing),
     Snap(Status(Str(ERROR), Missing), Missing, Missing, Missing),
     Snap(NoisyStatus, NoisyItems, NoisyBackup, Missing),
     Snap(Status(Str(ERROR), None), NoisyItems, None, Missing)}

RulesExit ==
    /\ pc[MainThread] = "idle"
    /\ outcome[MainThread] # NoOutcome
    /\ Exit

NextRules ==
    \/ \E d \in RuleSnapshots, entry \in RuleEntries :
          /\ corruption_score[MainInstance] < MaxScore
          /\ RuleCall(MainThread, MainInstance, d, entry)
    \/ RuleStep(MainThread)
    \/ RulesExit

SpecRules == Init /\ [][NextRules]_vars

(***************************************************************************)
(* SpecParallel: lines 136, 137 and 138 of analyze_all as three tasks on a *)
(* new analyzer (score 0 and no findings, as lines 132-133 leave one),     *)
(* taken by two threads in any order, their steps interleaved; when the    *)
(* three results are in self.findings the first thread makes the report    *)
(* (lines 141-157).                                                        *)
(***************************************************************************)
ParSnapshots ==
    {Snap(Missing, Missing, Missing, Missing),
     Snap(Status(Str(ERROR), Missing), NoisyItems, Missing, Missing),
     Snap(NoisyStatus, NoisyItems, NoisyBackup, Missing)}

\* The labels of a task and the name of the result it appends.
TaskLabels(entry) ==
    CASE entry = "a136" -> {"a136", "k47r", "k47w", "k62r", "k62w", "k65"}
      [] entry = "a137" -> {"a137", "t96r", "t96w", "t99"}
      [] entry = "a138" -> {"a138", "b125r", "b125w", "b128"}
TaskName(entry) ==
    CASE entry = "a136" -> "Keychain Status Analysis"
      [] entry = "a137" -> "Timestamp Validation"
      [] entry = "a138" -> "Backup Activity Analysis"
Tasks == {"a136", "a137", "a138"}
TaskTaken(entry) ==
    \/ \E t \in Threads : pc[t] \in TaskLabels(entry)
    \/ \E k \in 1..Len(heap[findings[MainInstance]]) :
          heap[findings[MainInstance]][k].name = TaskName(entry)

ParStart(d) ==
    /\ \A t \in Threads : pc[t] = "idle"
    /\ fresh[MainInstance]
    /\ data' = [t \in Threads |-> d]
    /\ self' = [t \in Threads |-> MainInstance]
    /\ fresh' = [fresh EXCEPT ![MainInstance] = FALSE]
    /\ UNCHANGED <<mockVars, corruption_score, findings, heap, pc, solo, tempVars, retVars, baseline>>

ParTake(t, entry) ==
    /\ pc[t] = "idle"
    /\ ~fresh[MainInstance]
    /\ ~TaskTaken(entry)
    /\ pc' = [pc EXCEPT ![t] = entry]
    /\ UNCHANGED <<mockVars, instVars, callVars, tempVars, retVars, baseline>>

\* The rule returns, the list appends the result, the task is done.
p65(t) == pc[t] = "k65" /\ AppendResult(t, "idle")
p99(t) == pc[t] = "t99" /\ AppendResult(t, "idle")
p128(t) == pc[t] = "b128" /\ AppendResult(t, "idle")

ParStep(t) ==
    \/ a136(t) \/ k47r(t) \/ k47w(t) \/ k62r(t) \/ k62w(t) \/ p65(t)
    \/ a137(t) \/ t96r(t) \/ t96w(t) \/ p99(t)
    \/ a138(t) \/ b125r(t) \/ b125w(t) \/ p128(t)

ParSummary ==
    /\ \A t \in Threads : pc[t] = "idle"
    /\ \A entry \in Tasks : TaskTaken(entry)
    /\ outcome[MainThread] = NoOutcome
    /\ pc' = [pc EXCEPT ![MainThread] = "a141"]
    /\ UNCHANGED <<mockVars, instVars, callVars, tempVars, retVars, baseline>>

SummaryStep(t) ==
    a141(t) \/ a142(t) \/ a147(t) \/ a150(t) \/ a151(t) \/ a153(t) \/ a154(t)

ParExit ==
    /\ pc[MainThread] = "idle"
    /\ outcome[MainThread] # NoOutcome
    /\ Exit

NextParallel ==
    \/ \E d \in ParSnapshots : ParStart(d)
    \/ \E t \in Threads, entry \in Tasks : ParTake(t, entry)
    \/ \E t \in Threads : ParStep(t)
    \/ ParSummary
    \/ SummaryStep(MainThread)
    \/ ParExit

SpecParallel == Init /\ [][NextParallel]_vars

(***************************************************************************)
(* MockiCloudBackupSystem and the helpers of tests/poc/conftest.py.        *)
(***************************************************************************)
MaxCycles == 3

ReturnedBy(op, arg, value) == [op |-> op, arg |-> arg, kind |-> "returned", value |-> value]
RaisedBy(op, arg, exc, line) ==
    [op |-> op, arg |-> arg, kind |-> "raised", exc |-> exc, line |-> line]
Value(v) == [raised |-> FALSE, value |-> v]
\* What a call that ended in outcome out leaves with its caller.
OutcomeOf(op, arg, out) ==
    IF out.raised THEN RaisedBy(op, arg, out.exc, out.line)
    ELSE ReturnedBy(op, arg, out.value)

\* __init__ (lines 50-53): a test gets a new backup system.
NewBackupSystem ==
    /\ backups' = NoBackups
    /\ validation_performed' = FALSE
    /\ warnings_shown' = FALSE
    /\ ret' = NoCall
    /\ history' = [d \in Devices |-> NoHistory]
    /\ UNCHANGED <<subject, indicator, analyzerVars>>

\* The record create_backup stores (lines 67-72).
StoredBackup(keychain_data, metadata, now) ==
    [keychain |-> keychain_data, metadata |-> metadata, created_at |-> now,
     validated |-> FALSE]

\* status_keychain, its circle and its views, as both checkers read them.
KeychainStatusOf(keychain_data) == get(keychain_data, "status_keychain", Dict(<<>>))
KeychainItemsOf(keychain_data) == get(keychain_data, "keychain_items", List(<<>>))
\* item.get("creation_date", "")
CreationDateOf(item) == get(item, "creation_date", Str(EMPTY_STR))

\* The issues validate_keychain collects from a status and from items it
\* could read (lines 105-118).
CircleIssues(status) ==
    IF get(status, "circle_status", None) = Str(ERROR)
    THEN << "circle_status is Error" >> ELSE <<>>
ViewIssues(view_status) ==
    LET hit == SelectSeq(view_status.d, LAMBDA p : p[2] = Str(VIEW_UNKNOWN))
    IN  [i \in 1..Len(hit) |-> <<"PCS view ", hit[i][1], " is unknown">>]
ItemIssues(items) ==
    LET hit == SelectSeq(items, LAMBDA it : Contains(EPOCH_DATE, CreationDateOf(it)))
    IN  [i \in 1..Len(hit) |-> <<"Epoch timestamp in ", get(hit[i], "service", None)>>]
\* An item on which the loop body raises: no .get, or a date `in` cannot search.
BadItem(item) == ~HasGet(item) \/ ~HasContains(CreationDateOf(item))

\* validate_keychain, lines 101-124: what it returns or raises.
ValidateOutcome(keychain_data) ==
    IF ~HasGet(keychain_data) THEN Raised("AttributeError", 102)
    ELSE LET status == KeychainStatusOf(keychain_data)
         IN  IF ~HasGet(status) THEN Raised("AttributeError", 105)
             ELSE LET view_status == get(status, "view_status", Dict(<<>>))
                      coll == KeychainItemsOf(keychain_data)
                  IN  IF ~HasItems(view_status) THEN Raised("AttributeError", 110)
                      ELSE IF ~Iterable(coll) THEN Raised("TypeError", 115)
                      ELSE LET items == Iterate(coll)
                               bad == {i \in 1..Len(items) : BadItem(items[i])}
                               issues == CircleIssues(status) \o ViewIssues(view_status)
                                            \o ItemIssues(items)
                           IN  IF bad # {}
                               THEN IF ~HasGet(items[CHOOSE i \in bad : \A j \in bad : i <= j])
                                    THEN Raised("AttributeError", 116)
                                    ELSE Raised("TypeError", 117)
                               ELSE Value([valid |-> Len(issues) = 0,
                                           issues |-> issues,
                                           validation_performed |-> TRUE])

\* is_epoch_timestamp (lines 152-154)
is_epoch_timestamp(timestamp_str) ==
    IF ~HasContains(timestamp_str) THEN Raised("TypeError", 154)
    ELSE Value(Contains(EPOCH_DATE, timestamp_str))

\* has_corruption_indicators (lines 157-175): it returns at the first
\* indicator it meets and reads nothing after it.
has_corruption_indicators(keychain_data) ==
    IF ~HasGet(keychain_data) THEN Raised("AttributeError", 159)
    ELSE LET status == KeychainStatusOf(keychain_data)
         IN  IF ~HasGet(status) THEN Raised("AttributeError", 162)
             ELSE IF get(status, "circle_status", None) = Str(ERROR) THEN Value(TRUE)
             ELSE LET view_status == get(status, "view_status", Dict(<<>>))
                      coll == KeychainItemsOf(keychain_data)
                  IN  IF ~HasItems(view_status) THEN Raised("AttributeError", 167)
                      ELSE IF \E i \in 1..Len(view_status.d) :
                                 view_status.d[i][2] = Str(VIEW_UNKNOWN)
                           THEN Value(TRUE)
                      ELSE IF ~Iterable(coll) THEN Raised("TypeError", 171)
                      ELSE LET items == Iterate(coll)
                               \* the items at which the loop ends
                               stop == {i \in 1..Len(items) :
                                           \/ ~HasGet(items[i])
                                           \/ is_epoch_timestamp(CreationDateOf(items[i])).raised
                                           \/ is_epoch_timestamp(CreationDateOf(items[i])).value}
                               first == CHOOSE i \in stop : \A j \in stop : i <= j
                           IN  IF stop = {} THEN Value(FALSE)
                               ELSE IF ~HasGet(items[first]) THEN Raised("AttributeError", 172)
                               ELSE is_epoch_timestamp(CreationDateOf(items[first]))

\* A variant that validates before it stores, and marks the backup.
create_backup_checked(device_id, keychain_data, metadata) ==
    /\ \E now \in Times :
          backups' = (device_id :>
                         [StoredBackup(keychain_data, metadata, now) EXCEPT
                             !.validated = ~ValidateOutcome(keychain_data).raised])
                     @@ backups
    /\ validation_performed' = TRUE
    /\ ret' = ReturnedBy("create_backup", device_id, TRUE)
    /\ UNCHANGED <<warnings_shown, subject, indicator, analyzerVars>>
\* create_backup (lines 55-73): the backup of device_id is replaced, no
\* check is made, True is returned.
create_backup(device_id, keychain_data, metadata) ==
    /\ \E now \in Times :
          backups' = (device_id :> StoredBackup(keychain_data, metadata, now)) @@ backups
    /\ ret' = ReturnedBy("create_backup", device_id, TRUE)
    /\ UNCHANGED <<validation_performed, warnings_shown, subject, indicator, analyzerVars>>

\* A variant that hands back nothing of a keychain that shows corruption.
restore_backup_repaired(device_id) ==
    /\ ret' = IF device_id \notin DOMAIN backups
              THEN RaisedBy("restore_backup", device_id, "ValueError", 87)
              ELSE ReturnedBy("restore_backup", device_id,
                              IF has_corruption_indicators(backups[device_id].keychain)
                                    = Value(FALSE)
                              THEN backups[device_id].keychain ELSE Dict(<<>>))
    /\ UNCHANGED <<backups, validation_performed, warnings_shown, subject, indicator,
                   history, analyzerVars>>
\* A variant that makes an empty backup for a device that has none.
restore_backup_default(device_id) ==
    /\ backups' = IF device_id \in DOMAIN backups THEN backups
                  ELSE (device_id :> StoredBackup(Dict(<<>>), Dict(<<>>), 1)) @@ backups
    /\ ret' = ReturnedBy("restore_backup", device_id, backups'[device_id].keychain)
    /\ UNCHANGED <<validation_performed, warnings_shown, subject, indicator,
                   history, analyzerVars>>
\* restore_backup (lines 75-91): ValueError for a device without a backup,
\* else the stored keychain as it is.
restore_backup(device_id) ==
    /\ ret' = IF device_id \notin DOMAIN backups
              THEN RaisedBy("restore_backup", device_id, "ValueError", 87)
              ELSE ReturnedBy("restore_backup", device_id, backups[device_id].keychain)
    /\ UNCHANGED <<backups, validation_performed, warnings_shown, subject, indicator,
                   history, analyzerVars>>

\* validate_keychain (lines 93-124): the flag is set before anything is read.
validate_keychain(keychain_data) ==
    /\ validation_performed' = TRUE
    /\ ret' = OutcomeOf("validate_keychain", keychain_data, ValidateOutcome(keychain_data))
    /\ UNCHANGED <<backups, warnings_shown, subject, indicator, history, analyzerVars>>

\* show_user_warning (lines 126-132)
show_user_warning(issues) ==
    /\ warnings_shown' = TRUE
    /\ ret' = ReturnedBy("show_user_warning", issues, None)
    /\ UNCHANGED <<backups, validation_performed, subject, indicator, history, analyzerVars>>

\* A test backs up the data of a fixture.
BackupFixture(d, k, m) ==
    /\ create_backup(d, k, m)
    /\ history' = [history EXCEPT ![d] = [passed |-> k, seed |-> k, cycles |-> 0]]

\* restored = restore_backup(d) ... create_backup(d, restored, metadata):
\* a test backs up again what it has just restored from the same device.
BackupRestored(d, m) ==
    /\ ret.op = "restore_backup" /\ ret.arg = d /\ ret.kind = "returned"
    /\ history[d].cycles < MaxCycles
    /\ create_backup(d, ret.value, m)
    /\ history' = [history EXCEPT ![d].passed = ret.value, ![d].cycles = @ + 1]

\* A test begins: it takes the data of a fixture; its backup system is new.
Fixture(k) ==
    /\ subject = NoSubject
    /\ subject' = k
    /\ UNCHANGED <<backups, validation_performed, warnings_shown, ret, indicator, history,
                   analyzerVars>>

\* The test ends: what it held is gone, the next one gets a new backup system.
Teardown ==
    /\ subject # NoSubject
    /\ subject' = NoSubject
    /\ indicator' = NoCall
    /\ backups' = NoBackups
    /\ validation_performed' = FALSE
    /\ warnings_shown' = FALSE
    /\ ret' = NoCall
    /\ UNCHANGED <<history, analyzerVars>>

\* has_corruption_indicators(subject)
CheckIndicators ==
    /\ subject # NoSubject
    /\ indicator' = OutcomeOf("has_corruption_indicators", subject,
                              has_corruption_indicators(subject))
    /\ UNCHANGED <<backups, validation_performed, warnings_shown, ret, subject, history,
                   analyzerVars>>

\* The test warns the user of the issues the validation has just returned.
WarnOfIssues ==
    /\ ret.op = "validate_keychain" /\ ret.kind = "returned"
    /\ ~ret.value.valid
    /\ show_user_warning(ret.value.issues)

(***************************************************************************)
(* SpecBackup: tests that only back up and restore, fixture data or what   *)
(* they have just restored, on two devices.                                *)
(***************************************************************************)
ValidKeychain ==
    Snap(Status(Str(IN_CIRCLE), ViewMap(<<Ena, Ena>>)),
         List(<<Item(Str(TS_VALID), Str(TS_VALID))>>), Missing, Missing)
CorruptedKeychain ==
    Snap(Status(Str(ERROR), ViewMap(<<Unk, Unk>>)),
         List(<<Item(Str(TS_EPOCH_T), Str(TS_VALID))>>), Missing, Missing)
BackupKeychains ==
    {ValidKeychain, CorruptedKeychain,
     Snap(Missing, List(<<Item(Str(TS_CDAT), Missing)>>), Missing, Missing),
     Snap(Status(Str(ERROR), None), Missing, Missing, Missing)}
BackupMetadata ==
    {Dict(<<>>), MkDict(<< <<"backup_metadata", NoisyBackup>> >>)}

NextBackup ==
    \/ NewBackupSystem
    \/ \E d \in Devices, k \in BackupKeychains, m \in BackupMetadata : BackupFixture(d, k, m)
    \/ \E d \in Devices : restore_backup(d)
    \/ \E d \in Devices, m \in BackupMetadata : BackupRestored(d, m)

SpecBackup == Init /\ [][NextBackup]_vars

(***************************************************************************)
(* SpecValidate: tests that give the data of a fixture to both checkers.   *)
(***************************************************************************)
NextValidate ==
    \/ \E k \in Snapshots : Fixture(k)
    \/ subject # NoSubject /\ validate_keychain(subject)
    \/ CheckIndicators
    \/ WarnOfIssues
    \/ Teardown

SpecValidate == Init /\ [][NextValidate]_vars

(***************************************************************************)
(* SpecMock: every method of the backup system, called in any order.       *)
(***************************************************************************)
MockKeychains == {ValidKeychain, CorruptedKeychain}

NextMock ==
    \/ NewBackupSystem
    \/ \E d \in Devices, k \in MockKeychains, m \in BackupMetadata : BackupFixture(d, k, m)
    \/ \E d \in Devices : restore_backup(d)
    \/ \E d \in Devices, m \in BackupMetadata : BackupRestored(d, m)
    \/ \E k \in MockKeychains : validate_keychain(k)
    \/ WarnOfIssues

SpecMock == Init /\ [][NextMock]_vars

(***************************************************************************)
(* Reading a snapshot and a report, for the properties.  These do not use  *)
(* the operators of the model above.                                       *)
(***************************************************************************)
\* The values x holds under key k: none when x is no dict or lacks the key.
Fields(x, k) ==
    IF x.type = "dict"
    THEN {x.d[i][2] : i \in {j \in 1..Len(x.d) : x.d[j][1] = k}}
    ELSE {}
The(S) == CHOOSE x \in S : TRUE

\* circle_status is the exact string "Error".
SnapCircleError(d) ==
    \E s \in Fields(d, "status_keychain") :
        \E c \in Fields(s, "circle_status") : c.type = "str" /\ c.s = ERROR

\* The positions in view_status whose state is exactly "unknown".
SnapUnknownAt(d) ==
    LET ss == Fields(d, "status_keychain")
        vs == IF ss = {} THEN {} ELSE Fields(The(ss), "view_status")
    IN  IF vs = {} \/ The(vs).type # "dict" THEN {}
        ELSE {i \in 1..Len(The(vs).d) :
                 The(vs).d[i][2].type = "str" /\ The(vs).d[i][2].s = VIEW_UNKNOWN}
SnapUnknownCount(d) == Cardinality(SnapUnknownAt(d))

\* s has the characters 1970-01-01 somewhere in a row.
HasEpochDate(s) ==
    \E i \in 1..Len(s) : \E j \in i..Len(s) : SubSeq(s, i, j) = EPOCH_DATE
DateHasEpoch(item, k) ==
    \E v \in Fields(item, k) : v.type = "str" /\ HasEpochDate(v.s)
\* The positions in keychain_items whose item has an epoch date in either field.
SnapEpochAt(d) ==
    LET its == Fields(d, "keychain_items")
    IN  IF its = {} \/ The(its).type # "list" THEN {}
        ELSE {i \in 1..Len(The(its).l) :
                 \/ DateHasEpoch(The(its).l[i], "creation_date")
                 \/ DateHasEpoch(The(its).l[i], "modification_date")}
SnapEpochCount(d) == Cardinality(SnapEpochAt(d))

\* SyncZoneFetched is true and NilBackupDateFetchDate is a non-empty string.
SnapBackupActive(d) ==
    \E m \in Fields(d, "backup_metadata") :
        /\ \E x \in Fields(m, "SyncZoneFetched") : x.type = "bool" /\ x.b
        /\ \E x \in Fields(m, "NilBackupDateFetchDate") : x.type = "str" /\ x.s # <<>>

\* Thread t holds a report / an outcome of a finished call.
Done(t) == pc[t] = "idle" /\ outcome[t].kind = "returned"
Finished(t) == pc[t] = "idle" /\ outcome[t].kind # "none"
RepFindings(t) == heap[report[t].findings]
RepScore(t) == report[t].summary.corruption_score
\* The issues of type ty in the report of thread t, as <<finding, position>>.
IssuesAt(t, ty) ==
    {p \in UNION {{<<i, j>> : j \in 1..Len(RepFindings(t)[i].issues)} :
                     i \in 1..Len(RepFindings(t))} :
        RepFindings(t)[p[1]].issues[p[2]].type = ty}
HasIssue(t, ty) == IssuesAt(t, ty) # {}
IssueOf(t, ty) == LET p == The(IssuesAt(t, ty)) IN RepFindings(t)[p[1]].issues[p[2]]
Ind(b) == IF b THEN 1 ELSE 0

\* The sum the rules that fired should have added, by the snapshot's counts.
ExpectedScore(t) ==
    3 * Ind(HasIssue(t, "circle_status_error"))
    + SnapUnknownCount(data[t]) * Ind(HasIssue(t, "unknown_pcs_views"))
    + 2 * SnapEpochCount(data[t]) * Ind(HasIssue(t, "epoch_timestamps"))
    + 2 * Ind(HasIssue(t, "active_backup_without_validation"))

\* C2: in every report the corruption score is 3 if the circle-status rule
\* fired, plus the number of unknown views if the PCS-view rule fired, plus
\* twice the number of matched epoch items if the epoch rule fired, plus 2
\* if the backup-activity rule fired, and nothing else.
C2_ScoreIsSumOfWeights ==
    \A t \in Threads : Done(t) => RepScore(t) = ExpectedScore(t)

\* A report in which all four rules fired, with two unknown views and two
\* epoch items among three.
C2_Witness ==
    /\ Done(MainThread)
    /\ \A ty \in {"circle_status_error", "unknown_pcs_views", "epoch_timestamps",
                  "active_backup_without_validation"} : HasIssue(MainThread, ty)
    /\ SnapUnknownCount(data[MainThread]) = 5
    /\ SnapEpochCount(data[MainThread]) = 2
    /\ RepScore(MainThread) = 14

RepAssessment(t) == report[t].summary.assessment
RepRecommendations(t) == report[t].recommendations
NoSignature(d) ==
    /\ ~SnapCircleError(d)
    /\ SnapUnknownCount(d) = 0
    /\ SnapEpochCount(d) = 0
    /\ ~SnapBackupActive(d)

\* C3: a report on a snapshot in which none of the four signatures matches
\* has score 0, the CLEAN label and no recommendations; and every report
\* with score 0 has no recommendations.
C3_CleanWhenNoSignature ==
    \A t \in Threads : Done(t) =>
        /\ NoSignature(data[t]) =>
              /\ RepScore(t) = 0
              /\ RepAssessment(t) = "CLEAN - No corruption indicators found"
              /\ RepRecommendations(t) = <<>>
        /\ RepScore(t) = 0 => RepRecommendations(t) = <<>>

\* A clean report on a snapshot that has views, items and backup metadata,
\* none of them matching.
C3_Witness ==
    /\ Done(MainThread)
    /\ NoSignature(data[MainThread])
    /\ \E s \in Fields(data[MainThread], "status_keychain") :
          \E v \in Fields(s, "view_status") : v.type = "dict" /\ Len(v.d) = MaxViews
    /\ RepScore(MainThread) = 0
    /\ RepRecommendations(MainThread) = <<>>

\* C4: the label of every report is CLEAN for score 0, MILD for 1..4,
\* MODERATE for 5..9 and SEVERE from 10 on.
C4_SeverityTiers ==
    \A t \in Threads : Done(t) =>
        /\ RepScore(t) >= 0
        /\ RepScore(t) = 0 => RepAssessment(t) = "CLEAN - No corruption indicators found"
        /\ RepScore(t) \in 1..4 => RepAssessment(t) = "MILD - Some issues detected"
        /\ RepScore(t) \in 5..9 =>
              RepAssessment(t) = "MODERATE - Significant corruption detected"
        /\ RepScore(t) >= 10 =>
              RepAssessment(t) = "SEVERE - Multiple corruption indicators present"

\* A report whose score is exactly 10, labelled SEVERE.
C4_Witness ==
    /\ Done(MainThread)
    /\ RepScore(MainThread) = 10
    /\ RepAssessment(MainThread) = "SEVERE - Multiple corruption indicators present"

\* C5: the recommendations of every report are none for score 0, the four
\* standard entries in order for a score of 1..9, and the urgency marker
\* followed by the same four for a score of 10 or more.
C5_Recommendations ==
    LET four == <<"DO NOT restore from this backup to new devices",
                  "Collect sysdiagnose for documentation",
                  "Contact Apple Support with case reference",
                  "Consider creating new clean backup after remediation">>
        urgent == "URGENT: Severe corruption detected - avoid using this backup"
    IN  \A t \in Threads : Done(t) =>
            /\ RepScore(t) = 0 => RepRecommendations(t) = <<>>
            /\ RepScore(t) \in 1..9 => RepRecommendations(t) = four
            /\ RepScore(t) >= 10 =>
                  /\ Len(RepRecommendations(t)) = 5
                  /\ Head(RepRecommendations(t)) = urgent
                  /\ Tail(RepRecommendations(t)) = four

\* The report on circle_status "Error", eleven unknown views and one epoch
\* item: score 16 and five recommendations.
C5_Witness ==
    /\ Done(MainThread)
    /\ SnapCircleError(data[MainThread])
    /\ SnapUnknownCount(data[MainThread]) = 11
    /\ SnapEpochCount(data[MainThread]) = 1
    /\ RepScore(MainThread) = 16
    /\ Len(RepRecommendations(MainThread)) = 5

(***************************************************************************)
(* Missing and malformed input                                             *)
(***************************************************************************)
\* Every value that is there has the type the rules expect; sections and
\* keys may be missing.
IsStrOrNull(x) == x.type \in {"str", "null"}
WellTypedItem(item) ==
    /\ item.type = "dict"
    /\ \A k \in {"creation_date", "modification_date"} :
          \A v \in Fields(item, k) : v.type = "str"
WellTyped(d) ==
    /\ d.type = "dict"
    /\ \A s \in Fields(d, "status_keychain") :
          /\ s.type = "dict"
          /\ \A c \in Fields(s, "circle_status") : IsStrOrNull(c)
          /\ \A v \in Fields(s, "view_status") :
                v.type = "dict" /\ \A i \in 1..Len(v.d) : IsStrOrNull(v.d[i][2])
    /\ \A its \in Fields(d, "keychain_items") :
          its.type = "list" /\ \A i \in 1..Len(its.l) : WellTypedItem(its.l[i])
    /\ \A m \in Fields(d, "backup_metadata") :
          /\ m.type = "dict"
          /\ \A x \in Fields(m, "SyncZoneFetched") : x.type = "bool"
          /\ \A x \in Fields(m, "NilBackupDateFetchDate") : IsStrOrNull(x)
    /\ \A g \in Fields(d, "integrity_checks") :
          g.type = "dict" /\ \A x \in Fields(g, "keychain_validated") : x.type = "bool"

\* The issues of the i-th finding of the report (1: keychain status,
\* 2: timestamps, 3: backup activity).
IssuesOf(t, i) == RepFindings(t)[i].issues

\* C6: on a snapshot in which sections or keys are missing but nothing has
\* a wrong type, analyze_all returns a report; a rule whose input is
\* missing reports no issue and adds nothing, and each rule reports its
\* issue exactly when its own section holds its signature.
C6_MissingInputDegrades ==
    \A t \in Threads : (Finished(t) /\ WellTyped(data[t])) =>
        /\ outcome[t].kind = "returned"
        /\ Len(RepFindings(t)) = 3
        /\ Fields(data[t], "status_keychain") = {} => IssuesOf(t, 1) = <<>>
        /\ Fields(data[t], "keychain_items") = {} => IssuesOf(t, 2) = <<>>
        /\ Fields(data[t], "backup_metadata") = {} => IssuesOf(t, 3) = <<>>
        /\ HasIssue(t, "circle_status_error") <=> SnapCircleError(data[t])
        /\ HasIssue(t, "unknown_pcs_views") <=> SnapUnknownCount(data[t]) > 0
        /\ HasIssue(t, "epoch_timestamps") <=> SnapEpochCount(data[t]) > 0
        /\ HasIssue(t, "active_backup_without_validation") <=> SnapBackupActive(data[t])
        /\ RepScore(t) = ExpectedScore(t)

\* A report on a snapshot without status_keychain whose other two rules
\* fired.
C6_Witness ==
    /\ Done(MainThread)
    /\ WellTyped(data[MainThread])
    /\ Fields(data[MainThread], "status_keychain") = {}
    /\ IssuesOf(MainThread, 1) = <<>>
    /\ HasIssue(MainThread, "epoch_timestamps")
    /\ HasIssue(MainThread, "active_backup_without_validation")
    /\ RepScore(MainThread) = 4

\* C7: analyze_all never raises: every finished call has returned a
\* report, whatever the shape of the snapshot.
C7_NeverRaises ==
    \A t \in Threads : Finished(t) => outcome[t].kind = "returned"

(***************************************************************************)
(* The rules                                                               *)
(***************************************************************************)
\* C9: with n the number of views whose state is exactly "unknown", a
\* report has no unknown_pcs_views issue when n = 0 and exactly one when
\* n >= 1; that issue is "high" when n > 5 and "medium" when 1 <= n <= 5,
\* and the score holds n for it.
C9_PcsViewRule ==
    \A t \in Threads : Done(t) =>
        LET n == SnapUnknownCount(data[t])
        IN  /\ n = 0 => ~HasIssue(t, "unknown_pcs_views")
            /\ n >= 1 =>
                  /\ Cardinality(IssuesAt(t, "unknown_pcs_views")) = 1
                  /\ The(IssuesAt(t, "unknown_pcs_views"))[1] = 1
                  /\ IssueOf(t, "unknown_pcs_views").severity =
                        (IF n > 5 THEN "high" ELSE "medium")
                  /\ Len(IssueOf(t, "unknown_pcs_views").affected_views) = n
            /\ RepScore(t) =
                  n + 3 * Ind(HasIssue(t, "circle_status_error"))
                    + 2 * SnapEpochCount(data[t]) * Ind(HasIssue(t, "epoch_timestamps"))
                    + 2 * Ind(HasIssue(t, "active_backup_without_validation"))

\* A report on exactly six unknown views and nothing else: weight 6, "high".
C9_Witness ==
    /\ Done(MainThread)
    /\ SnapUnknownCount(data[MainThread]) = 6
    /\ IssueOf(MainThread, "unknown_pcs_views").severity = "high"
    /\ RepScore(MainThread) = 6

\* C10: with m the number of keychain items whose creation_date or
\* modification_date contains "1970-01-01", a report has no
\* epoch_timestamps issue when m = 0 and one "high" issue listing m items
\* when m >= 1, and the score holds 2 * m for it; an item with the date in
\* both fields counts once.
C10_EpochRule ==
    \A t \in Threads : Done(t) =>
        LET m == SnapEpochCount(data[t])
        IN  /\ m = 0 => ~HasIssue(t, "epoch_timestamps")
            /\ m >= 1 =>
                  /\ Cardinality(IssuesAt(t, "epoch_timestamps")) = 1
                  /\ The(IssuesAt(t, "epoch_timestamps"))[1] = 2
                  /\ IssueOf(t, "epoch_timestamps").severity = "high"
                  /\ Len(IssueOf(t, "epoch_timestamps").items) = m
            /\ RepScore(t) =
                  2 * m + 3 * Ind(HasIssue(t, "circle_status_error"))
                    + SnapUnknownCount(data[t]) * Ind(HasIssue(t, "unknown_pcs_views"))
                    + 2 * Ind(HasIssue(t, "active_backup_without_validation"))
    /\ HasEpochDate(TS_EPOCH_T) /\ HasEpochDate(TS_EPOCH_SP) /\ ~HasEpochDate(TS_VALID)

\* A report on one item that has the epoch date in both fields, counted once.
C10_Witness ==
    /\ Done(MainThread)
    /\ \E its \in Fields(data[MainThread], "keychain_items") :
          /\ its.type = "list" /\ Len(its.l) = 1
          /\ DateHasEpoch(its.l[1], "creation_date")
          /\ DateHasEpoch(its.l[1], "modification_date")
    /\ Len(IssueOf(MainThread, "epoch_timestamps").items) = 1
    /\ RepScore(MainThread) = 2

(***************************************************************************)
(* Isolation and re-entrancy                                               *)
(***************************************************************************)
\* The outcome of thread t's finished call is the one kept from a call on
\* the same snapshot that ran alone on a new analyzer.
SameAsAlone(t) ==
    (Finished(t) /\ baseline.kind = "set" /\ baseline.data = data[t])
        => View(t) = baseline.view

\* C1: a call of analyze_all on an analyzer that has been used before gives,
\* for its snapshot, the report (summary, findings, recommendations) that a
\* new analyzer gives for it.
C1_Isolation == SameAsAlone(MainThread)

\* A report with a positive score from an analyzer that had been used
\* before, next to the kept report of a new analyzer on the same snapshot.
C1_Witness ==
    /\ Done(MainThread)
    /\ ~solo[MainThread]
    /\ baseline.kind = "set"
    /\ baseline.data = data[MainThread]
    /\ baseline.view.kind = "returned"
    /\ RepScore(MainThread) = 9

\* C8: whatever runs at the same time, on the same analyzer or another,
\* every call of analyze_all gives the outcome it gives when run alone.
C8_Reentrant == \A t \in Threads : SameAsAlone(t)

(***************************************************************************)
(* The backup-activity and circle-status rules                             *)
(***************************************************************************)
\* The value integrity_checks holds for keychain_validated, false when the
\* section or the key is missing.
SnapValidated(d) ==
    LET gs == Fields(d, "integrity_checks")
        vs == IF gs = {} THEN {} ELSE Fields(The(gs), "keychain_validated")
    IN  IF vs = {} THEN [type |-> "bool", b |-> FALSE] ELSE The(vs)

\* C11: a report has one active_backup_without_validation issue, "high",
\* in its third finding, exactly when SyncZoneFetched is true and
\* NilBackupDateFetchDate holds a timestamp, whatever keychain_validated
\* is; the issue carries the timestamp and the value of keychain_validated
\* (false when missing), and the score holds 2 for it.
C11_BackupRule ==
    \A t \in Threads : Done(t) =>
        LET ty == "active_backup_without_validation"
        IN  /\ HasIssue(t, ty) <=> SnapBackupActive(data[t])
            /\ HasIssue(t, ty) =>
                  /\ Cardinality(IssuesAt(t, ty)) = 1
                  /\ The(IssuesAt(t, ty))[1] = 3
                  /\ IssueOf(t, ty).severity = "high"
                  /\ IssueOf(t, ty).validation_performed = SnapValidated(data[t])
                  /\ IssueOf(t, ty).last_backup \in
                        Fields(The(Fields(data[t], "backup_metadata")),
                               "NilBackupDateFetchDate")
            /\ RepScore(t) =
                  2 * Ind(SnapBackupActive(data[t]))
                    + 3 * Ind(HasIssue(t, "circle_status_error"))
                    + SnapUnknownCount(data[t]) * Ind(HasIssue(t, "unknown_pcs_views"))
                    + 2 * SnapEpochCount(data[t]) * Ind(HasIssue(t, "epoch_timestamps"))

\* A report on an active backup whose keychain_validated is true: the rule
\* fired all the same, the only rule to fire.
C11_Witness ==
    /\ Done(MainThread)
    /\ SnapBackupActive(data[MainThread])
    /\ SnapValidated(data[MainThread]) = [type |-> "bool", b |-> TRUE]
    /\ IssueOf(MainThread, "active_backup_without_validation").validation_performed
          = [type |-> "bool", b |-> TRUE]
    /\ RepScore(MainThread) = 2

\* A report on SyncZoneFetched true with an empty NilBackupDateFetchDate:
\* no timestamp, no issue.
C11_WitnessEmpty ==
    /\ Done(MainThread)
    /\ \E m \in Fields(data[MainThread], "backup_metadata") :
          /\ \E x \in Fields(m, "SyncZoneFetched") : x.type = "bool" /\ x.b
          /\ \E x \in Fields(m, "NilBackupDateFetchDate") : x.type = "str" /\ x.s = <<>>
    /\ ~HasIssue(MainThread, "active_backup_without_validation")

\* The values status_keychain holds for circle_status.
SnapCircle(d) ==
    UNION {Fields(st, "circle_status") : st \in Fields(d, "status_keychain")}

\* C12: a report has one circle_status_error issue, "high", the first issue
\* of its first finding, exactly when circle_status is the string "Error"
\* letter for letter; any other value, or none, gives no such issue; and
\* the score holds 3 for the issue.
C12_CircleRule ==
    \A t \in Threads : Done(t) =>
        LET ty == "circle_status_error"
            exact == \E c \in SnapCircle(data[t]) :
                        c = [type |-> "str", s |-> <<"E", "r", "r", "o", "r">>]
        IN  /\ HasIssue(t, ty) <=> exact
            /\ HasIssue(t, ty) =>
                  /\ IssuesAt(t, ty) = {<<1, 1>>}
                  /\ IssueOf(t, ty).severity = "high"
                  /\ RepFindings(t)[1].severity = "high"
            /\ RepScore(t) =
                  3 * Ind(exact)
                    + SnapUnknownCount(data[t]) * Ind(HasIssue(t, "unknown_pcs_views"))
                    + 2 * SnapEpochCount(data[t]) * Ind(HasIssue(t, "epoch_timestamps"))
                    + 2 * Ind(HasIssue(t, "active_backup_without_validation"))

\* A report on circle_status "Error" and nothing else: one issue, score 3.
C12_Witness ==
    /\ Done(MainThread)
    /\ SnapCircleError(data[MainThread])
    /\ HasIssue(MainThread, "circle_status_error")
    /\ SumLen(RepFindings(MainThread)) = 1
    /\ RepScore(MainThread) = 3

\* A report on circle_status "error" in lower case: no issue, score 0.
C12_WitnessLowerCase ==
    /\ Done(MainThread)
    /\ \E c \in SnapCircle(data[MainThread]) :
          c = [type |-> "str", s |-> <<"e", "r", "r", "o", "r">>]
    /\ ~HasIssue(MainThread, "circle_status_error")
    /\ RepScore(MainThread) = 0

(***************************************************************************)
(* Two reports side by side                                                *)
(***************************************************************************)
\* C13: two finished calls of analyze_all on the same snapshot have given
\* the same outcome: the same summary, findings and recommendations (the
\* timestamp is not compared), or the same exception.
C13_Idempotent ==
    \A t, u \in Threads :
        (Finished(t) /\ Finished(u) /\ data[t] = data[u]) =>
            /\ outcome[t] = outcome[u]
            /\ Done(t) =>
                  /\ report[t].summary = report[u].summary
                  /\ RepFindings(t) = RepFindings(u)
                  /\ RepRecommendations(t) = RepRecommendations(u)

\* Two reports on the snapshot in which every rule fires, made at
\* different times, each with its own list of findings.
C13_Witness ==
    /\ Done(1) /\ Done(2)
    /\ data[1] = data[2]
    /\ report[1].timestamp # report[2].timestamp
    /\ report[1].findings # report[2].findings
    /\ RepScore(1) = 10
    /\ SumLen(RepFindings(2)) = 4

\* Snapshot b holds every signature snapshot a holds: the circle error if a
\* has it, the unknown views and the epoch items of a at least, the active
\* backup if a has it.
Below(a, b) ==
    /\ SnapCircleError(a) => SnapCircleError(b)
    /\ SnapUnknownAt(a) \subseteq SnapUnknownAt(b)
    /\ SnapEpochAt(a) \subseteq SnapEpochAt(b)
    /\ SnapBackupActive(a) => SnapBackupActive(b)

\* C14: no report has a negative score, and of two reports the one on the
\* snapshot that holds every signature of the other, and maybe more, has
\* the score that is not lower.
C14_ScoreMonotone ==
    /\ \A t \in Threads : Done(t) => RepScore(t) >= 0
    /\ \A t, u \in Threads :
          (Done(t) /\ Done(u) /\ Below(data[t], data[u])) => RepScore(t) <= RepScore(u)

\* Two reports on snapshots that differ in one view, unknown in the second
\* only: scores 2 and 3.
C14_Witness ==
    /\ Done(1) /\ Done(2)
    /\ Below(data[1], data[2])
    /\ SnapUnknownCount(data[1]) = 2 /\ SnapUnknownCount(data[2]) = 3
    /\ RepScore(1) = 2 /\ RepScore(2) = 3

\* C17: two reports with the same score have the same recommendations,
\* whichever rules gave the score.
C17_RecommendationsByScore ==
    \A t, u \in Threads :
        (Done(t) /\ Done(u) /\ RepScore(t) = RepScore(u)) =>
            RepRecommendations(t) = RepRecommendations(u)

\* Score 3 from circle_status "Error" alone next to score 3 from three
\* unknown views alone.
C17_Witness ==
    /\ Done(1) /\ Done(2)
    /\ SnapCircleError(data[1]) /\ SnapUnknownCount(data[1]) = 0
    /\ ~SnapCircleError(data[2]) /\ SnapUnknownCount(data[2]) = 3
    /\ RepScore(1) = 3 /\ RepScore(2) = 3
    /\ Len(RepRecommendations(1)) = 4

\* C19: until a caller that holds a report calls again, no step changes
\* the report (summary, recommendations, the list of findings it names) or
\* the contents of that list, whatever call of analyze_all runs on the
\* analyzer the report came from.
C19_ReportImmutable ==
    [][\A t \in Threads :
          (Done(t) /\ pc'[t] = "idle") =>
              /\ report'[t] = report[t]
              /\ heap'[report[t].findings] = heap[report[t].findings]]_vars

\* Caller 1 holds the report with score 10 and three findings; the
\* analyzer has since made a clean report on another snapshot for caller 2.
C19_Witness ==
    /\ Done(1) /\ Done(2)
    /\ self[1] = self[2]
    /\ findings[self[2]] = report[2].findings
    /\ report[1].findings # report[2].findings
    /\ RepScore(1) = 10 /\ Len(RepFindings(1)) = 3 /\ SumLen(RepFindings(1)) = 4
    /\ RepScore(2) = 0 /\ corruption_score[self[1]] = 0

(***************************************************************************)
(* The exit code of main                                                   *)
(***************************************************************************)
\* C18: when main has analysed a snapshot and returned, its exit code is
\* not 0 if the score in the report is above 0, and is 0 if the score is 0.
C18_ExitCode ==
    \A t \in Threads : (Done(t) /\ Exited(t)) =>
        /\ RepScore(t) > 0 => outcome[t].exit # 0
        /\ RepScore(t) = 0 => outcome[t].exit = 0

\* main has returned 1 on a report with score 1, the lowest score above 0.
C18_Witness ==
    /\ Done(MainThread) /\ Exited(MainThread)
    /\ RepScore(MainThread) = 1
    /\ RepAssessment(MainThread) = "MILD - Some issues detected"
    /\ outcome[MainThread].exit = 1

\* main has returned 0 on a clean report.
C18_WitnessClean ==
    /\ Done(MainThread) /\ Exited(MainThread)
    /\ RepScore(MainThread) = 0
    /\ outcome[MainThread].exit = 0

(***************************************************************************)
(* The snapshot                                                            *)
(***************************************************************************)
\* C20: from the entry of analyze_all to its return or its exception, no
\* step of analyze_all or of a rule changes the snapshot it was given.
C20_SnapshotReadOnly ==
    [][\A t \in Threads : pc[t] # "idle" => data'[t] = data[t]]_vars

\* A report in which all four rules fired, on a snapshot that still holds
\* its circle error, eleven unknown views, its epoch item and its backup
\* metadata.
C20_Witness ==
    /\ Done(MainThread)
    /\ \A ty \in {"circle_status_error", "unknown_pcs_views", "epoch_timestamps",
                  "active_backup_without_validation"} : HasIssue(MainThread, ty)
    /\ SnapCircleError(data[MainThread])
    /\ SnapUnknownCount(data[MainThread]) = 11
    /\ SnapEpochCount(data[MainThread]) = 1
    /\ SnapBackupActive(data[MainThread])
    /\ RepScore(MainThread) = 18

(***************************************************************************)
(* The rules as functions of the snapshot                                  *)
(***************************************************************************)
\* C15: a call of a rule method leaves the analyzer as it was: on an
\* analyzer on which only rule methods have been called, corruption_score
\* and findings are what __init__ made them, 0 and the empty list.
C15_RulesPure ==
    \A i \in Instances :
        /\ corruption_score[i] = 0
        /\ findings[i] = i
        /\ heap[findings[i]] = <<>>

\* The types of the issues in the report of thread t.
IssueTypes(t) ==
    {RepFindings(t)[p[1]].issues[p[2]].type :
        p \in UNION {{<<i, j>> : j \in 1..Len(RepFindings(t)[i].issues)} :
                        i \in 1..Len(RepFindings(t))}}

\* C16: in whatever order the three rules run, and however their steps
\* interleave, the report is the one analyze_all makes with the rules run
\* one after another: the score is 3 for the circle error, plus the unknown
\* views, plus 2 per epoch item, plus 2 for the active backup, and the
\* label, the issues and the recommendations are those of that score.
C16_AnyOrder ==
    \A t \in Threads : Done(t) =>
        LET d == data[t]
            score == 3 * Ind(SnapCircleError(d)) + SnapUnknownCount(d)
                       + 2 * SnapEpochCount(d) + 2 * Ind(SnapBackupActive(d))
        IN  /\ RepScore(t) = score
            /\ RepAssessment(t) = _assess_corruption_level(score)
            /\ RepRecommendations(t) = _generate_recommendations(score)
            /\ Len(RepFindings(t)) = 3
            /\ IssueTypes(t) =
                  {ty \in {"circle_status_error"} : SnapCircleError(d)}
                  \cup {ty \in {"unknown_pcs_views"} : SnapUnknownCount(d) > 0}
                  \cup {ty \in {"epoch_timestamps"} : SnapEpochCount(d) > 0}
                  \cup {ty \in {"active_backup_without_validation"} : SnapBackupActive(d)}

(***************************************************************************)
(* The summary and the evidence of a report                                *)
(***************************************************************************)
SeverityRank(s) == CASE s = "high" -> 2 [] s = "medium" -> 1 [] OTHER -> 0
\* The highest severity among the issues, "none" when there are none.
HighestSeverity(issues) ==
    IF \E j \in 1..Len(issues) : SeverityRank(issues[j].severity) = 2 THEN "high"
    ELSE IF \E j \in 1..Len(issues) : SeverityRank(issues[j].severity) = 1 THEN "medium"
    ELSE "none"
RepHighCount(t) == report[t].summary.high_severity_findings
RepTotalIssues(t) == report[t].summary.total_issues
\* The only signature of d is between one and five unknown views.
OnlyFewUnknown(d) ==
    /\ ~SnapCircleError(d)
    /\ SnapUnknownCount(d) \in 1..5
    /\ SnapEpochCount(d) = 0
    /\ ~SnapBackupActive(d)

\* C24: high_severity_findings is the number of findings whose severity is
\* "high"; a finding's severity is the highest severity among its issues,
\* "none" when it has no issues; so a report on a snapshot whose only
\* signature is one to five unknown views has high_severity_findings 0.
C24_HighSeverityCount ==
    \A t \in Threads : Done(t) =>
        /\ RepHighCount(t) =
              Cardinality({i \in 1..Len(RepFindings(t)) :
                              RepFindings(t)[i].severity = "high"})
        /\ \A i \in 1..Len(RepFindings(t)) :
              RepFindings(t)[i].severity = HighestSeverity(RepFindings(t)[i].issues)
        /\ OnlyFewUnknown(data[t]) => RepHighCount(t) = 0

\* The part of C24 the code keeps: the count is the number of findings
\* marked "high", and a finding without issues is marked "none".
C24_CountsMarkedHigh ==
    \A t \in Threads : Done(t) =>
        /\ RepHighCount(t) =
              Cardinality({i \in 1..Len(RepFindings(t)) :
                              RepFindings(t)[i].severity = "high"})
        /\ \A i \in 1..Len(RepFindings(t)) :
              RepFindings(t)[i].issues = <<>> => RepFindings(t)[i].severity = "none"

\* A report on one unknown view and nothing else: its one issue is
\* "medium", its finding is marked "high" and counted.
C24_MediumCountedHigh ==
    /\ Done(MainThread)
    /\ OnlyFewUnknown(data[MainThread])
    /\ IssueOf(MainThread, "unknown_pcs_views").severity = "medium"
    /\ RepFindings(MainThread)[1].severity = "high"
    /\ RepHighCount(MainThread) = 1

\* C25: in every report the corruption score is above 0 exactly when the
\* total issue count is above 0.
C25_ScoreIffIssues ==
    \A t \in Threads : Done(t) => (RepScore(t) > 0 <=> RepTotalIssues(t) > 0)

\* A report whose one issue carries the smallest weight, one unknown view.
C25_Witness ==
    /\ Done(MainThread)
    /\ RepScore(MainThread) = 1
    /\ RepTotalIssues(MainThread) = 1

\* A clean report: no issue and score 0, on a snapshot that has views.
C25_WitnessClean ==
    /\ Done(MainThread)
    /\ RepScore(MainThread) = 0
    /\ RepTotalIssues(MainThread) = 0
    /\ \E s \in Fields(data[MainThread], "status_keychain") :
          \E v \in Fields(s, "view_status") : v.type = "dict" /\ Len(v.d) > 0

\* The pairs of the snapshot's view_status mapping, in its iteration order.
SnapViews(d) == The(Fields(The(Fields(d, "status_keychain")), "view_status")).d

\* C26: the affected_views of the unknown_pcs_views issue are the names of
\* the views whose state is "unknown", in the iteration order of the
\* view_status mapping: its i-th entry is the name at the i-th unknown
\* position, so none is omitted, duplicated or reordered.
C26_AffectedViewsInOrder ==
    \A t \in Threads : (Done(t) /\ HasIssue(t, "unknown_pcs_views")) =>
        LET av == IssueOf(t, "unknown_pcs_views").affected_views
            pos == SnapUnknownAt(data[t])
        IN  /\ Len(av) = Cardinality(pos)
            /\ \A k \in pos :
                  av[Cardinality({p \in pos : p <= k})] = SnapViews(data[t])[k][1]

\* A report on a mapping in which a view that is not unknown stands
\* between two unknown ones.
C26_Witness ==
    /\ Done(MainThread)
    /\ HasIssue(MainThread, "unknown_pcs_views")
    /\ \E a, b, c \in 1..MaxViews :
          /\ a < b /\ b < c
          /\ {a, c} \subseteq SnapUnknownAt(data[MainThread])
          /\ b \in 1..Len(SnapViews(data[MainThread])) \ SnapUnknownAt(data[MainThread])
    /\ Len(IssueOf(MainThread, "unknown_pcs_views").affected_views) >= 2

(***************************************************************************)
(* The backup system of the tests                                          *)
(***************************************************************************)
\* C21: however create_backup and restore_backup are called, nothing is
\* validated and nobody is warned: validation_performed and warnings_shown
\* stay false, every create_backup returns True, whatever the keychain
\* data, and every stored backup has validated = False.
C21_NeverValidates ==
    /\ ~validation_performed
    /\ ~warnings_shown
    /\ ret.op = "create_backup" => (ret.kind = "returned" /\ ret.value = TRUE)
    /\ \A d \in DOMAIN backups : backups[d].validated = FALSE

\* Corrupted data backed up, restored and backed up again on one device,
\* valid data backed up on the other, the last create_backup returning True.
C21_Witness ==
    /\ DOMAIN backups = Devices
    /\ \E d, e \in Devices :
          /\ backups[d].keychain = CorruptedKeychain
          /\ history[d].cycles >= 1
          /\ backups[e].keychain = ValidKeychain
    /\ ret.op = "create_backup" /\ ret.value = TRUE

\* keychain_data shows one of the three indicators to has_corruption_indicators.
Corrupted(keychain_data) == has_corruption_indicators(keychain_data) = Value(TRUE)

\* C22: restore_backup(d) returns the keychain data that was passed to the
\* most recent create_backup for d, as it was passed; and when the data a
\* test first backed up for d has corruption indicators, what is restored
\* has them too, after any number of restore-and-back-up-again cycles.
C22_RestoreReturnsBackedUp ==
    (ret.op = "restore_backup" /\ ret.kind = "returned") =>
        /\ ret.value = history[ret.arg].passed
        /\ Corrupted(history[ret.arg].seed) => Corrupted(ret.value)

\* A restore after MaxCycles cycles on a device whose first backup was
\* corrupted.
C22_Witness ==
    /\ ret.op = "restore_backup" /\ ret.kind = "returned"
    /\ history[ret.arg].cycles = MaxCycles
    /\ history[ret.arg].seed = CorruptedKeychain
    /\ Corrupted(ret.value)

\* Some item of the list under keychain_items has the epoch date in its
\* creation_date.
SnapCreatedEpoch(d) ==
    LET its == Fields(d, "keychain_items")
    IN  /\ its # {}
        /\ The(its).type = "list"
        /\ \E i \in 1..Len(The(its).l) : DateHasEpoch(The(its).l[i], "creation_date")

\* C23: on the same keychain data, validate_keychain returns valid = true
\* with no issues exactly when has_corruption_indicators returns false; and
\* a circle_status "Error", an "unknown" view or an item whose creation_date
\* contains 1970-01-01 makes both report corruption.
C23_SameVerdict ==
    (ret.op = "validate_keychain" /\ ret.arg = subject /\ indicator # NoCall) =>
        /\ (ret.kind = "returned" /\ ret.value.valid /\ ret.value.issues = <<>>)
              <=> (indicator.kind = "returned" /\ indicator.value = FALSE)
        /\ (SnapCircleError(subject) \/ SnapUnknownCount(subject) > 0
               \/ SnapCreatedEpoch(subject)) =>
              /\ ret.kind = "returned" /\ ~ret.value.valid /\ ret.value.issues # <<>>
              /\ indicator.kind = "returned" /\ indicator.value = TRUE

\* The part of C23 the code keeps: the two agree on clean data, and
\* whenever both return they agree.
C23_AgreeWhenBothReturn ==
    (ret.op = "validate_keychain" /\ ret.arg = subject /\ indicator # NoCall) =>
        /\ (ret.kind = "returned" /\ ret.value.valid /\ ret.value.issues = <<>>)
              <=> (indicator.kind = "returned" /\ indicator.value = FALSE)
        /\ (ret.kind = "returned" /\ indicator.kind = "returned") =>
              /\ ret.value.valid = ~indicator.value
              /\ ret.value.valid = (ret.value.issues = <<>>)
              /\ indicator.value =
                    (SnapCircleError(subject) \/ SnapUnknownCount(subject) > 0
                        \/ SnapCreatedEpoch(subject))

\* has_corruption_indicators has returned True at the circle_status and
\* validate_keychain, reading on, has raised.
C23_OneReturnsOneRaises ==
    /\ ret.op = "validate_keychain" /\ ret.arg = subject
    /\ ret.kind = "raised"
    /\ indicator # NoCall /\ indicator.kind = "returned" /\ indicator.value = TRUE
    /\ SnapCircleError(subject)

\* C27: restore_backup(d) for a device without a stored backup raises
\* ValueError and leaves backups, validation_performed and warnings_shown
\* as they were; create_backup(d, ...) stores a backup for d and leaves the
\* backup of every other device as it was.
C27_FailedRestoreAndReplace ==
    [][/\ (ret'.op = "restore_backup" /\ ret'.arg \notin DOMAIN backups) =>
              /\ ret'.kind = "raised" /\ ret'.exc = "ValueError"
              /\ UNCHANGED <<backups, validation_performed, warnings_shown>>
       /\ ret'.op = "create_backup" =>
              /\ DOMAIN backups' = DOMAIN backups \cup {ret'.arg}
              /\ \A e \in DOMAIN backups \ {ret'.arg} : backups'[e] = backups[e]
      ]_vars

\* A restore that failed for one device while the other has a backup and
\* both flags are set.
C27_Witness ==
    /\ ret.op = "restore_backup" /\ ret.kind = "raised" /\ ret.exc = "ValueError"
    /\ ret.arg \notin DOMAIN backups
    /\ DOMAIN backups # {}
    /\ validation_performed /\ warnings_shown

\* A backup replaced for one device while the other keeps its own.
C27_WitnessReplace ==
    /\ ret.op = "create_backup"
    /\ DOMAIN backups = Devices
    /\ history[ret.arg].cycles >= 1
    /\ \E e \in Devices \ {ret.arg} : backups[e].keychain # backups[ret.arg].keychain

=============================================================================
